---- MODULE Spec2Model ----
(***************************************************************************)
(* State-machine model of the 5tran pipeline tooling:                      *)
(*   - PipelineOrchestrator (src/src/orchestrator.py) with the parts of    *)
(*     FivetranManager, BigQueryManager and DBTGenerator it drives;        *)
(*   - FivetranAPIClient.wait_for_connector_setup;                         *)
(*   - the Pipeline-A generation runs of app.py (web UI) and main.py (CLI).*)
(* Python strings are sequences of one-character strings; Python None is   *)
(* the record None; a dict is a record.                                    *)
(***************************************************************************)
EXTENDS Integers, Sequences, FiniteSets, TLC

\* ---------------------------------------------------------------- bounds
\* orchestrator calls in one behaviour
MaxCalls == 2

\* largest timeout, poll interval and request duration (seconds) tried for
\* wait_for_connector_setup
MaxTimeout == 5

MaxInterval == 3

MaxLatency == 2

\* Pipeline-A generation runs in one behaviour
MaxRuns == 2

\* deploy runs of the Pipeline-B command line in one behaviour
MaxDeploys == 2

\* fenced blocks in an agent answer handed to the schema parser
MaxBlocks == 2

\* characters in a project name handed to the sanitizer
MaxNameLen == 2

\* records the extraction service returns to one sync pass
MaxRecords == 2

\* pages a paginated fetch may ask for
MaxPages == 2

\* ------------------------------------------------------- Python helpers
\* None in a slot that otherwise holds a dict
None == [none |-> TRUE]

\* None in a slot that otherwise holds a str or a list
NoneStr == <<"None">>

\* truth value of an Optional[dict] (the dicts of this program are never empty)
Truthy(x) == x # None

\* truth value of an Optional[str] or Optional[list]
TruthyStr(s) == s # NoneStr /\ s # <<>>

Min(a, b) == IF a <= b THEN a ELSE b

Range(s) == {s[i] : i \in 1..Len(s)}

\* s[:n]
Take(s, n) == SubSeq(s, 1, Min(n, Len(s)))

UpperChars == <<"A", "C", "D", "I", "M", "O", "P", "S">>

LowerChars == <<"a", "c", "d", "i", "m", "o", "p", "s">>

\* str.lower() on one character
LowerChar(c) ==
  IF \E i \in 1..Len(UpperChars) : UpperChars[i] = c
    THEN LowerChars[CHOOSE i \in 1..Len(UpperChars) : UpperChars[i] = c]
    ELSE c

\* str.lower()
Lower(s) == [i \in 1..Len(s) |-> LowerChar(s[i])]

\* str.replace(a, b) for one-character a and b
Replace(s, a, b) == [i \in 1..Len(s) |-> IF s[i] = a THEN b ELSE s[i]]

\* sub in s
Contains(s, sub) ==
  \E i \in 0..(Len(s) - Len(sub)) : SubSeq(s, i + 1, i + Len(sub)) = sub

\* str.split(sep) for a one-character sep
RECURSIVE SplitFrom(_, _, _, _, _)
SplitFrom(s, sep, i, cur, acc) ==
  IF i > Len(s) THEN Append(acc, cur)
  ELSE IF s[i] = sep THEN SplitFrom(s, sep, i + 1, <<>>, Append(acc, cur))
  ELSE SplitFrom(s, sep, i + 1, Append(cur, s[i]), acc)

Split(s, sep) == SplitFrom(s, sep, 1, <<>>, <<>>)

NonEmpty(s) == s # <<>>

\* str.split() with no separator: runs of whitespace separate, no empty parts
SplitWs(s) == SelectSeq(Split(Replace(Replace(s, "\n", " "), "\t", " "), " "), NonEmpty)

\* ------------------------------------------------------------- literals
S_orders == <<"o", "r", "d", "e", "r", "s">>

S_customers == <<"c", "u", "s", "t", "o", "m", "e", "r", "s">>

S_products == <<"p", "r", "o", "d", "u", "c", "t", "s">>

S_data == <<"d", "a", "t", "a">>

S_API_Source == <<"A", "P", "I", " ", "S", "o", "u", "r", "c", "e">>

S_My_API == <<"M", "y", "-", "A", "P", "I">>

\* ----------------------------------------------------------- input sets
\* requirements texts
Requirements == {
  <<"c", "u", "s", "t", "o", "m", "e", "r", " ", "O", "r", "d", "e", "r">>,
  <<"P", "r", "o", "d", "u", "c", "t", "s">>,
  <<"s", "a", "l", "e", "s">> }

\* openapi_spec: absent, a document the parser accepts, one it rejects
OpenAPISpecs == {"None", "valid", "invalid"}

S_group == <<"g", "1">>

GroupIds == {NoneStr, S_group}

Credentials == {None, [api_key |-> "k"]}

\* entity lists the analysis agent may answer with
AgentEntityLists == {
  <<>>,
  <<S_orders, S_customers, S_products>>,
  <<S_orders, S_customers, S_products, S_data>> }

AgentMetrics == {<<>>, <<"revenue">>}

\* stdout of a successful `fivetran deploy`
S_stdout_id ==
  <<"o", "k", "\n", "C", "o", "n", "n", "e", "c", "t", "o", "r", " ",
    "I", "D", " ", "m", "y", "_", "a", "p", "i", "_", "c", "o", "n", "n">>

S_stdout_plain == <<"D", "o", "n", "e">>

Stdouts == {S_stdout_id, S_stdout_plain}

\* how the `fivetran deploy` subprocess can end
CliOutcomes == {"ok", "nonzero", "missing"}

\* ------------------------------------------------------- pure functions
S_order == <<"o", "r", "d", "e", "r">>

S_customer == <<"c", "u", "s", "t", "o", "m", "e", "r">>

S_product == <<"p", "r", "o", "d", "u", "c", "t">>

S_slash_data == <<"/", "d", "a", "t", "a">>

\* a fallback analysis that looks for the keywords without lowering the text
fallback_analysisMut(requirements) ==
  LET hits == (IF Contains(requirements, S_order) THEN <<S_orders>> ELSE <<>>)
              \o (IF Contains(requirements, S_customer) THEN <<S_customers>> ELSE <<>>)
              \o (IF Contains(requirements, S_product) THEN <<S_products>> ELSE <<>>)
  IN [source_name |-> S_API_Source,
      endpoints |-> <<S_slash_data>>,
      entities |-> IF hits = <<>> THEN <<S_data>> ELSE hits,
      business_metrics |-> <<"count", "total">>]

\* PipelineOrchestrator._fallback_analysis
fallback_analysis(requirements) ==
  LET hits == (IF Contains(Lower(requirements), S_order) THEN <<S_orders>> ELSE <<>>)
              \o (IF Contains(Lower(requirements), S_customer) THEN <<S_customers>> ELSE <<>>)
              \o (IF Contains(Lower(requirements), S_product) THEN <<S_products>> ELSE <<>>)
  IN [source_name |-> S_API_Source,
      endpoints |-> <<S_slash_data>>,
      entities |-> IF hits = <<>> THEN <<S_data>> ELSE hits,
      business_metrics |-> <<"count", "total">>]

\* what OpenAPIParser.get_summary answers for the document the parser accepts
S_slash_orders == <<"/", "o", "r", "d", "e", "r", "s">>

S_slash_customers == <<"/", "c", "u", "s", "t", "o", "m", "e", "r", "s">>

S_slash_orders_id == S_slash_orders \o <<"/", "{", "i", "d", "}">>

SpecSummary ==
  [base_url |-> "https://api.spec", auth_type |-> "apiKey",
   endpoints |-> <<S_slash_orders, S_slash_orders_id, S_slash_customers>>]

\* str.strip(c) for a one-character c
RECURSIVE LStrip(_, _)
LStrip(s, c) == IF s # <<>> /\ Head(s) = c THEN LStrip(Tail(s), c) ELSE s

RECURSIVE RStrip(_, _)
RStrip(s, c) ==
  IF s # <<>> /\ s[Len(s)] = c THEN RStrip(SubSeq(s, 1, Len(s) - 1), c) ELSE s

Strip(s, c) == RStrip(LStrip(s, c), c)

\* create_pipeline, lines 98-114: one EndpointConfig per endpoint path
EndpointConfig(endpoint_path) ==
  LET table_name == Lower(Split(Strip(endpoint_path, "/"), "/")[1])
  IN [table_name |-> IF table_name = <<>> THEN S_data ELSE table_name,
      path |-> endpoint_path]

\* FivetranManager.generate_connector_code: the connector's name and directory
ConnectorName(source_name) == Replace(Replace(Lower(source_name), " ", "_"), "-", "_")

S_connectors_dir == <<"c", "o", "n", "n", "e", "c", "t", "o", "r", "s", "/">>

ConnectorDir(source_name) == S_connectors_dir \o ConnectorName(source_name)

\* ConnectorGenerator.save_connector_files: the files it writes into a directory
GeneratedFiles(dir) ==
  {[dir |-> dir, name |-> n] :
     n \in {"connector.py", "requirements.txt", "configuration.json.template", "README.md"}}

\* FivetranManager._extract_connector_id
S_connector == <<"c", "o", "n", "n", "e", "c", "t", "o", "r">>

S_id == <<"i", "d">>

IdLike(part) == Len(part) > 10 /\ Contains(part, <<"_">>)

HasIdLike(parts) == \E i \in 1..Len(parts) : IdLike(parts[i])

LineWithId(line) ==
  /\ Contains(Lower(line), S_connector)
  /\ Contains(Lower(line), S_id)
  /\ HasIdLike(SplitWs(line))

extract_connector_id(output) ==
  LET lines == SelectSeq(Split(output, "\n"), LineWithId)
  IN IF lines = <<>> THEN NoneStr
     ELSE SelectSeq(SplitWs(lines[1]), IdLike)[1]

\* BigQueryManager.create_table_from_schema: the mock always succeeds,
\* otherwise the client's create_table decides
create_table_from_schema(mock, client_ok) == IF mock THEN TRUE ELSE client_ok

S_raw == <<"r", "a", "w", "_">>

S_stg == <<"s", "t", "g", "_">>

S_mart == <<"m", "a", "r", "t", "_">>

\* create_pipeline, line 165
TableName(source_name, entity) ==
  Replace(Lower(S_raw \o source_name \o <<"_">> \o entity), " ", "_")

\* DBTGenerator.create_staging_model: the stem of the file it writes
StagingModelName(source_name, table_name) ==
  S_stg \o source_name \o <<"_">> \o table_name

\* DBTGenerator.create_mart_model: the stem of the file it writes
MartModelName(mart_name) == S_mart \o mart_name

S_unknown == <<"u", "n", "k", "n", "o", "w", "n">>

\* DBTGenerator.create_mart_model: the model named in its ref(...)
MartRef(entities) == S_stg \o (IF entities # <<>> THEN entities[1] ELSE S_unknown)

\* ------------------------------------------------------------ variables
VARIABLES
  agent,             \* self.agent is not None
  mock_mode,         \* self.bigquery.mock_mode
  current_pipeline,  \* self.current_pipeline: None or a reference to a result dict
  pc,                \* position of the running orchestrator call
  entry,             \* the public method that is running
  args,              \* arguments of the running call
  analysis,          \* local: analysis
  schema_info,       \* local: schema_info (None for the empty dict)
  endpoints,         \* local: endpoints
  endpoint_configs,  \* local: endpoint_configs
  connector_info,    \* local: connector_info
  result,            \* local of deploy_connector: what the manager's deploy returned
  deployment_result, \* local: deployment_result
  table_ok,          \* what create_table_from_schema returned, per attempt
  tables_created,    \* local: tables_created
  staging_models,    \* local: staging_models
  mart_models,       \* local: mart_models
  mart_refs,         \* the model each mart file of this call selects from
  trace,             \* side effects and warnings of the running call, in order
  files,             \* files on disk under the connectors directory
  cwd,               \* process working directory
  original_dir,      \* local of FivetranManager.deploy_connector
  calls,             \* number of orchestrator calls started
  last_ok,           \* number of the latest create_pipeline call that returned, or 0
  outcome,           \* how the most recent call ended, and with what
  ui,                \* FiveTranUI.create_pipeline: position, auto_deploy, what it returned
  \* FivetranAPIClient.wait_for_connector_setup
  w_pc,              \* position in the call
  w_args,            \* timeout and poll_interval of the call
  now,               \* time.time()
  start_time,        \* local: start_time
  polled,            \* the get_connector calls made: when, how long, what they saw
  w_outcome,         \* how the call ended
  \* Pipeline A: app.py (web UI) and main.py (CLI)
  a_dirs,            \* names of the subdirectories of src/connectors/
  a_run,             \* the generation runs: position, inputs, what they produced
  \* a pure function applied to an input
  fn_op,             \* the function that was applied, or "none"
  fn_in,             \* its argument
  fn_out,            \* what it returned
  \* Pipeline B command line: src/cli/commands
  platform,          \* the Fivetran account: groups, destinations, connectors
  d_pc,              \* position of the running deploy command
  d_opts,            \* its options and what it finds on disk
  resources,         \* local of deploy: resources
  d_calls,           \* the API calls the running deploy has made
  b_disk,            \* the YAML files of the working directory: path -> contents
  g_opts,            \* the description and --output of the generate run last
  s_check,           \* the status check run last: its options and its connector_id
  d_saved,           \* what the deploy runs have written to it, in order
  d_run,             \* number of deploy runs started
  b_cmd,             \* the sub-command run last
  b_fail,            \* the failures it met
  b_exit,            \* its exit status, -1 while it runs
  \* the generated connectors at run time
  sync,              \* a pass of update() of the Pipeline A connector
  fetch              \* a call of get_endpoint_data of the Pipeline B connector

orchVars == <<agent, mock_mode, current_pipeline, pc, entry, args, analysis,
              schema_info, endpoints, endpoint_configs, connector_info, result,
              deployment_result, table_ok, tables_created, staging_models,
              mart_refs, mart_models, trace, files, cwd, original_dir, calls, last_ok,
              outcome, ui>>

waitVars == <<w_pc, w_args, now, start_time, polled, w_outcome>>

aVars == <<a_dirs, a_run>>

fnVars == <<fn_op, fn_in, fn_out>>

\* the state of the other entry points
bVars == <<platform, d_pc, d_opts, resources, d_calls, b_disk, g_opts,
           s_check, d_saved, d_run, b_cmd, b_fail, b_exit>>

connVars == <<sync, fetch>>

extraVars == <<fnVars, bVars, connVars>>

vars == <<orchVars, waitVars, aVars, extraVars>>

\* the locals of create_pipeline
locals == <<analysis, schema_info, endpoints, endpoint_configs, connector_info, result,
            deployment_result, table_ok, tables_created, staging_models,
            mart_refs, mart_models>>

\* what a call leaves alone unless it says otherwise
process == <<agent, mock_mode, waitVars, aVars, extraVars>>

S_project_root == <<"/", "a", "p", "p">>

NoUi == [pc |-> "idle", auto_deploy |-> FALSE, out |-> None]

\* PipelineOrchestrator.__init__
OrchInit ==
  /\ agent \in BOOLEAN
  /\ mock_mode \in BOOLEAN
  /\ current_pipeline = None
  /\ pc = "idle"
  /\ entry = "none"
  /\ args = None
  /\ analysis = None
  /\ schema_info = None
  /\ endpoints = <<>>
  /\ endpoint_configs = <<>>
  /\ connector_info = None
  /\ result = None
  /\ deployment_result = None
  /\ table_ok = <<>>
  /\ tables_created = <<>>
  /\ staging_models = <<>>
  /\ mart_models = <<>>
  /\ mart_refs = <<>>
  /\ trace = <<>>
  /\ files = {}
  /\ cwd = S_project_root
  /\ original_dir = NoneStr
  /\ calls = 0
  /\ last_ok = 0
  /\ outcome = [op |-> "none", kind |-> "none"]
  /\ ui = NoUi

\* an exception leaves the running call
Raises(msg) ==
  /\ pc' = "idle"
  /\ outcome' = [op |-> entry, kind |-> "raised", error |-> msg]

\* create_pipeline is called (lines 31-56)
CreatePipeline(requirements, openapi_spec, auto_deploy, fivetran_group_id, source_api_credentials) ==
  /\ pc = "idle"
  /\ calls < MaxCalls
  /\ calls' = calls + 1
  /\ pc' = "analyze"
  /\ entry' = "create_pipeline"
  /\ args' = [requirements |-> requirements, openapi_spec |-> openapi_spec,
              auto_deploy |-> auto_deploy, fivetran_group_id |-> fivetran_group_id,
              source_api_credentials |-> source_api_credentials]
  /\ outcome' = [op |-> "create_pipeline", kind |-> "running"]
  /\ analysis' = None
  /\ schema_info' = None
  /\ endpoints' = <<>>
  /\ endpoint_configs' = <<>>
  /\ connector_info' = None
  /\ result' = None
  /\ deployment_result' = None
  /\ table_ok' = <<>>
  /\ tables_created' = <<>>
  /\ staging_models' = <<>>
  /\ mart_models' = <<>>
  /\ mart_refs' = <<>>
  /\ trace' = <<>>
  /\ UNCHANGED <<process, current_pipeline, files, cwd, original_dir, last_ok>>

\* Step 1 without an agent (lines 60-62)
CP_AnalyzeFallback ==
  /\ pc = "analyze"
  /\ ~agent
  /\ analysis' = fallback_analysis(args.requirements)
  /\ trace' = Append(trace, "analyze")
  /\ pc' = "parse"
  /\ UNCHANGED <<process, ui, current_pipeline, entry, args, schema_info,
                 endpoints, endpoint_configs, connector_info, result, deployment_result,
                 table_ok, tables_created, staging_models, mart_refs, mart_models, files,
                 cwd, original_dir, calls, last_ok, outcome>>

\* Step 1 with an agent (line 64): the agent answers
CP_AnalyzeAgent(entities, business_metrics) ==
  /\ pc = "analyze"
  /\ agent
  /\ analysis' = [source_name |-> S_My_API, endpoints |-> <<>>,
                  entities |-> entities, business_metrics |-> business_metrics]
  /\ trace' = Append(trace, "analyze")
  /\ pc' = "parse"
  /\ UNCHANGED <<process, ui, current_pipeline, entry, args, schema_info,
                 endpoints, endpoint_configs, connector_info, result, deployment_result,
                 table_ok, tables_created, staging_models, mart_refs, mart_models, files,
                 cwd, original_dir, calls, last_ok, outcome>>

\* Step 1 with an agent (line 64): the model call or json.loads raises
CP_AnalyzeRaises ==
  /\ pc = "analyze"
  /\ agent
  /\ Raises("analysis failed")
  /\ trace' = Append(trace, "analyze_failed")
  /\ UNCHANGED <<process, ui, current_pipeline, entry, args, locals, files, cwd,
                 original_dir, calls, last_ok>>

\* Step 2 (lines 69-91): a parser failure is caught
CP_Parse ==
  /\ pc = "parse"
  /\ IF args.openapi_spec = "None"
       THEN UNCHANGED <<schema_info, trace>>
       ELSE /\ trace' = Append(trace, "parse")
            /\ schema_info' =
                 IF args.openapi_spec = "valid"
                   THEN [base_url |-> SpecSummary.base_url,
                         auth_type |-> SpecSummary.auth_type]
                   ELSE None
  /\ endpoints' =
       IF args.openapi_spec = "valid" /\ analysis.endpoints = <<>>
         THEN Take(SpecSummary.endpoints, 5)
         ELSE analysis.endpoints
  /\ pc' = "generate"
  /\ UNCHANGED <<process, ui, current_pipeline, entry, args, analysis,
                 endpoint_configs, connector_info, result, deployment_result, table_ok,
                 tables_created, staging_models, mart_refs, mart_models, files, cwd,
                 original_dir, calls, last_ok, outcome>>

\* Step 3 (lines 93-131): the connector files are written
CP_Generate ==
  /\ pc = "generate"
  /\ endpoint_configs' = [i \in 1..Len(endpoints) |-> EndpointConfig(endpoints[i])]
  /\ connector_info' = [connector_name |-> ConnectorName(analysis.source_name),
                        connector_dir |-> ConnectorDir(analysis.source_name)]
  /\ files' = files \cup GeneratedFiles(ConnectorDir(analysis.source_name))
  /\ trace' = Append(trace, "generate")
  /\ pc' = "deploy_gate"
  /\ UNCHANGED <<process, ui, current_pipeline, entry, args, analysis, schema_info,
                 endpoints, result, deployment_result, table_ok, tables_created,
                 staging_models, mart_refs, mart_models, cwd, original_dir, calls, last_ok,
                 outcome>>

\* a generation failure that is reported and then ignored
CP_GenerateRaisesMut ==
  /\ pc = "generate"
  /\ endpoint_configs' = [i \in 1..Len(endpoints) |-> EndpointConfig(endpoints[i])]
  /\ connector_info' = [connector_name |-> ConnectorName(analysis.source_name),
                        connector_dir |-> ConnectorDir(analysis.source_name)]
  /\ trace' = Append(trace, "generate_failed")
  /\ pc' = "deploy_gate"
  /\ UNCHANGED <<process, ui, current_pipeline, entry, args, analysis, schema_info,
                 endpoints, result, deployment_result, table_ok, tables_created,
                 staging_models, mart_refs, mart_models, files, cwd, original_dir, calls,
                 last_ok, outcome>>

\* Step 3 (lines 124-129): generate_connector_code raises, nothing catches it
CP_GenerateRaises ==
  /\ pc = "generate"
  /\ endpoint_configs' = [i \in 1..Len(endpoints) |-> EndpointConfig(endpoints[i])]
  /\ Raises("generation failed")
  /\ trace' = Append(trace, "generate_failed")
  /\ UNCHANGED <<process, ui, current_pipeline, entry, args, analysis, schema_info,
                 endpoints, connector_info, result, deployment_result, table_ok,
                 tables_created, staging_models, mart_refs, mart_models, files, cwd,
                 original_dir, calls, last_ok>>

\* a gate that forgets the credentials check
DeployWantedMut(a) ==
  /\ a.auto_deploy
  /\ TruthyStr(a.fivetran_group_id)

\* lines 133-154: is a deployment attempted?
DeployWanted(a) ==
  /\ a.auto_deploy
  /\ TruthyStr(a.fivetran_group_id)
  /\ Truthy(a.source_api_credentials)

\* lines 133-154 when no deployment is attempted
CP_SkipDeploy ==
  /\ pc = "deploy_gate"
  /\ ~DeployWanted(args)
  /\ trace' = IF ~args.auto_deploy THEN trace
              ELSE IF ~TruthyStr(args.fivetran_group_id)
                THEN Append(trace, "warn_no_group_id")
                ELSE Append(trace, "warn_no_credentials")
  /\ pc' = "warehouse"
  /\ UNCHANGED <<process, ui, current_pipeline, entry, args, locals, files, cwd,
                 original_dir, calls, last_ok, outcome>>

\* lines 141-147: create_pipeline calls self.deploy_connector
CP_EnterDeploy ==
  /\ pc = "deploy_gate"
  /\ DeployWanted(args)
  /\ pc' = "dc_config"
  /\ UNCHANGED <<process, ui, current_pipeline, entry, args, locals, trace, files,
                 cwd, original_dir, calls, last_ok, outcome>>

\* deploy_connector is called on its own (lines 307-325)
DeployConnector(connector_dir, group_id, api_credentials) ==
  /\ pc = "idle"
  /\ calls < MaxCalls
  /\ calls' = calls + 1
  /\ pc' = "dc_config"
  /\ entry' = "deploy_connector"
  /\ args' = [connector_dir |-> connector_dir, group_id |-> group_id,
              api_credentials |-> api_credentials]
  /\ outcome' = [op |-> "deploy_connector", kind |-> "running"]
  /\ analysis' = None
  /\ schema_info' = None
  /\ endpoints' = <<>>
  /\ endpoint_configs' = <<>>
  /\ connector_info' = None
  /\ result' = None
  /\ deployment_result' = None
  /\ table_ok' = <<>>
  /\ tables_created' = <<>>
  /\ staging_models' = <<>>
  /\ mart_models' = <<>>
  /\ mart_refs' = <<>>
  /\ trace' = <<>>
  /\ UNCHANGED <<process, ui, current_pipeline, files, cwd, original_dir, last_ok>>

\* the arguments deploy_connector runs with
DeployDir ==
  IF entry = "create_pipeline" THEN connector_info.connector_dir ELSE args.connector_dir

DeployCredentials ==
  IF entry = "create_pipeline" THEN args.source_api_credentials ELSE args.api_credentials

DirExists(dir) == \E f \in files : f.dir = dir

\* a create_pipeline without the try/except around deploy_connector
DeployRaisesMut(msg) ==
  /\ Raises(msg)
  /\ UNCHANGED deployment_result

\* an exception leaves deploy_connector: create_pipeline catches it
\* (lines 149-152), a direct caller receives it
DeployRaises(msg) ==
  IF entry = "create_pipeline"
    THEN /\ deployment_result' = [status |-> "failed", error |-> msg]
         /\ pc' = "warehouse"
         /\ UNCHANGED outcome
    ELSE /\ Raises(msg)
         /\ UNCHANGED deployment_result

\* deploy_connector returns r (line 359)
DeployReturns(r) ==
  IF entry = "create_pipeline"
    THEN /\ deployment_result' = r
         /\ pc' = "warehouse"
         /\ UNCHANGED outcome
    ELSE /\ pc' = "idle"
         /\ outcome' = [op |-> entry, kind |-> "returned", value |-> r]
         /\ UNCHANGED deployment_result

\* deploy_connector, lines 327-334: configuration.json is written
DC_Config ==
  /\ pc = "dc_config"
  /\ IF ~Truthy(DeployCredentials)
       THEN /\ pc' = "fm_enter"
            /\ UNCHANGED <<files, trace, deployment_result, outcome>>
       ELSE IF DirExists(DeployDir)
         THEN /\ files' = files \cup {[dir |-> DeployDir, name |-> "configuration.json"]}
              /\ trace' = Append(trace, "write_config")
              /\ pc' = "fm_enter"
              /\ UNCHANGED <<deployment_result, outcome>>
         ELSE /\ DeployRaises("No such file or directory")
              /\ UNCHANGED <<files, trace>>
  /\ UNCHANGED <<process, ui, current_pipeline, entry, args, analysis, schema_info,
                 endpoints, endpoint_configs, connector_info, result, table_ok,
                 tables_created, staging_models, mart_refs, mart_models, cwd, original_dir,
                 calls, last_ok>>

\* FivetranManager.deploy_connector, lines 161-178: the checks, then chdir
FM_Enter ==
  /\ pc = "fm_enter"
  /\ IF ~DirExists(DeployDir)
       THEN /\ DeployRaises("Connector directory not found")
            /\ UNCHANGED <<cwd, original_dir>>
       ELSE IF [dir |-> DeployDir, name |-> "connector.py"] \notin files
         THEN /\ DeployRaises("connector.py not found")
              /\ UNCHANGED <<cwd, original_dir>>
         ELSE /\ original_dir' = cwd
              /\ cwd' = DeployDir
              /\ pc' = "fm_run"
              /\ UNCHANGED <<deployment_result, outcome>>
  /\ UNCHANGED <<process, ui, current_pipeline, entry, args, analysis, schema_info,
                 endpoints, endpoint_configs, connector_info, result, table_ok,
                 tables_created, staging_models, mart_refs, mart_models, trace, files,
                 calls, last_ok>>

\* FivetranManager.deploy_connector, lines 198 and 214-219: the working
\* directory once the subprocess has ended
CwdAfterCli(cli) == IF cli = "nonzero" THEN cwd ELSE original_dir

\* the trace entry of a subprocess run
CliEvent(cli) ==
  CASE cli = "ok" -> "cli_deploy_ok"
    [] cli = "nonzero" -> "cli_deploy_nonzero"
    [] OTHER -> "cli_deploy_missing"

\* FivetranManager.deploy_connector, lines 191-219: the subprocess ends
FM_Run(cli, stdout) ==
  /\ pc = "fm_run"
  /\ trace' = Append(trace, CliEvent(cli))
  /\ cwd' = CwdAfterCli(cli)
  /\ IF cli = "ok"
       THEN /\ result' = [status |-> "deployed",
                          connector_id |-> extract_connector_id(stdout),
                          output |-> stdout]
            /\ pc' = "dc_sync"
            /\ UNCHANGED <<deployment_result, outcome>>
       ELSE /\ DeployRaises(IF cli = "nonzero"
                              THEN "Connector deployment failed: stderr"
                              ELSE "Deployment error: No such file or directory: 'fivetran'")
            /\ UNCHANGED result
  /\ UNCHANGED <<process, ui, current_pipeline, entry, args, analysis, schema_info,
                 endpoints, endpoint_configs, connector_info, table_ok,
                 tables_created, staging_models, mart_refs, mart_models, files,
                 original_dir, calls, last_ok>>

\* a sync that is triggered whether or not a connector id was recovered
SyncWantedMut(r) == r.status = "deployed"

\* deploy_connector, lines 342-350: is the initial sync triggered?
SyncWanted(r) == r.status = "deployed" /\ TruthyStr(r.connector_id)

\* deploy_connector, lines 342-359: the sync is tried, its failure is caught
DC_Finish(sync_ok) ==
  /\ pc = "dc_sync"
  /\ trace' = IF ~SyncWanted(result) THEN trace
              ELSE IF sync_ok THEN Append(trace, "trigger_sync")
              ELSE trace \o <<"trigger_sync", "sync_failed">>
  /\ DeployReturns(result)
  /\ UNCHANGED <<process, ui, current_pipeline, entry, args, analysis, schema_info,
                 endpoints, endpoint_configs, connector_info, result, table_ok,
                 tables_created, staging_models, mart_refs, mart_models, files, cwd,
                 original_dir, calls, last_ok>>

\* every table is listed, whatever create_table_from_schema returned
CreatedMut(names, oks) == names

\* create_pipeline, lines 174-176: the tables whose creation succeeded
Created(names, oks) ==
  LET idx == SelectSeq([i \in 1..Len(names) |-> i], LAMBDA i : oks[i])
  IN [k \in 1..Len(idx) |-> names[idx[k]]]

\* Step 4 (lines 156-176): the dataset, then a table for each of the first 3
\* entities; client_ok[i] is whether the client's i-th create_table succeeds
CP_Warehouse ==
  /\ pc = "warehouse"
  /\ \E client_ok \in [1..Len(Take(analysis.entities, 3)) -> BOOLEAN] :
     LET ents == Take(analysis.entities, 3)
         names == [i \in 1..Len(ents) |-> TableName(analysis.source_name, ents[i])]
         oks == [i \in 1..Len(ents) |-> create_table_from_schema(mock_mode, client_ok[i])]
     IN /\ table_ok' = oks
        /\ tables_created' = Created(names, oks)
        /\ trace' = trace \o <<"create_dataset">> \o [i \in 1..Len(ents) |-> "create_table"]
  /\ pc' = "dbt"
  /\ UNCHANGED <<process, ui, current_pipeline, entry, args, analysis, schema_info,
                 endpoints, endpoint_configs, connector_info, result,
                 deployment_result, staging_models, mart_refs, mart_models, files, cwd,
                 original_dir, calls, last_ok, outcome>>

\* Steps 5 and 6 (lines 178-229): the dbt project and its models
CP_Dbt ==
  /\ pc = "dbt"
  /\ LET ents == Take(analysis.entities, 3)
         source_name == Replace(Lower(analysis.source_name), " ", "_")
         mart == analysis.business_metrics # <<>>
     IN /\ staging_models' = [i \in 1..Len(ents) |-> StagingModelName(source_name, ents[i])]
        /\ mart_models' = IF mart THEN <<MartModelName(source_name)>> ELSE <<>>
        /\ mart_refs' = IF mart THEN <<MartRef(analysis.entities)>> ELSE <<>>
        /\ trace' = trace \o <<"dbt_init">> \o [i \in 1..Len(ents) |-> "staging_model"]
                      \o <<"sources_yml">> \o (IF mart THEN <<"mart_model">> ELSE <<>>)
                      \o <<"schema_yml">>
  /\ pc' = "store"
  /\ UNCHANGED <<process, ui, current_pipeline, entry, args, analysis, schema_info,
                 endpoints, endpoint_configs, connector_info, result,
                 deployment_result, table_ok, tables_created, files, cwd,
                 original_dir, calls, last_ok, outcome>>

\* Step 5 (lines 180-183): writing the dbt project files raises, nothing catches it
CP_DbtRaises ==
  /\ pc = "dbt"
  /\ Raises("dbt project write failed")
  /\ trace' = Append(trace, "dbt_init_failed")
  /\ UNCHANGED <<process, ui, current_pipeline, entry, args, locals, files, cwd,
                 original_dir, calls, last_ok>>

\* Step 7 (lines 235-255): the result dict. A dict is held by reference: ref
\* is its identity (the number of the call that built it), and nothing
\* changes its contents once it is built
PipelineInfo ==
  [ref |-> calls,
   analysis |-> analysis,
   fivetran |->
     [connector_name |-> connector_info.connector_name,
      connector_dir |-> connector_info.connector_dir,
      deployed |-> deployment_result # None /\ deployment_result.status = "deployed",
      deployment |-> deployment_result,
      connector_id |-> IF deployment_result # None
                          /\ "connector_id" \in DOMAIN deployment_result
                         THEN deployment_result.connector_id
                         ELSE NoneStr],
   bigquery |-> [tables |-> tables_created],
   dbt |-> [staging_models |-> staging_models, mart_models |-> mart_models]]

\* the reference to a result dict
Ref(info) == [ref |-> info.ref]

\* Step 7 (lines 257-258): the result is cached and returned
CP_Store ==
  /\ pc = "store"
  /\ current_pipeline' = Ref(PipelineInfo)
  /\ outcome' = [op |-> entry, kind |-> "returned", value |-> PipelineInfo]
  /\ last_ok' = calls
  /\ trace' = Append(trace, "store")
  /\ pc' = "idle"
  /\ UNCHANGED <<process, ui, entry, args, locals, files, cwd, original_dir, calls>>

\* a get_status without the check for a missing pipeline
get_statusMut(pipeline) == [pipeline_info |-> pipeline]

\* get_status, lines 288-305: what it returns
get_status(pipeline) ==
  IF ~Truthy(pipeline) THEN None ELSE [pipeline_info |-> pipeline]

\* get_status is called and returns
GetStatus ==
  /\ pc = "idle"
  /\ outcome' = [op |-> "get_status", kind |-> "returned",
                 value |-> get_status(current_pipeline)]
  /\ UNCHANGED <<process, ui, current_pipeline, pc, entry, args, locals, trace,
                 files, cwd, original_dir, calls, last_ok>>

\* ------------------------------------------- wait_for_connector_setup
\* status.setup_state as get_connector reports it ("None": the key is absent)
SetupStates == {"connected", "broken", "incomplete", "None"}

\* line 207: the states that end the wait with an exception
FailedStatesMut == {"broken"}

FailedStates == {"broken", "incomplete"}

WaitIdle ==
  /\ w_pc = "idle"
  /\ w_args = [timeout |-> 0, poll_interval |-> 1]
  /\ now = 0
  /\ start_time = 0
  /\ polled = <<>>
  /\ w_outcome = "none"

\* wait_for_connector_setup is called (line 199)
WaitCall(timeout, poll_interval) ==
  /\ w_pc = "idle"
  /\ w_args' = [timeout |-> timeout, poll_interval |-> poll_interval]
  /\ start_time' = now
  /\ w_pc' = "loop"
  /\ UNCHANGED <<orchVars, extraVars, aVars, now, polled, w_outcome>>

\* an off-by-one deadline
DeadlineOpenMut(t, start, timeout) == t - start < timeout - 1

\* line 201: the loop condition
DeadlineOpen(t, start, timeout) == t - start < timeout

\* lines 201 and 212: the loop condition is evaluated
WaitCheck ==
  /\ w_pc = "loop"
  /\ IF DeadlineOpen(now, start_time, w_args.timeout)
       THEN w_pc' = "poll" /\ UNCHANGED w_outcome
       ELSE w_pc' = "done" /\ w_outcome' = "timeout"
  /\ UNCHANGED <<orchVars, extraVars, aVars, w_args, now, start_time, polled>>

\* lines 202-208: get_connector answers after `latency` seconds
WaitPoll(latency, setup_state) ==
  /\ w_pc = "poll"
  /\ now' = now + latency
  /\ polled' = Append(polled, [at |-> now, took |-> latency, saw |-> setup_state])
  /\ IF setup_state = "connected"
       THEN w_pc' = "done" /\ w_outcome' = "returned"
       ELSE IF setup_state \in FailedStates
         THEN w_pc' = "done" /\ w_outcome' = "failed"
         ELSE w_pc' = "sleep" /\ UNCHANGED w_outcome
  /\ UNCHANGED <<orchVars, extraVars, aVars, w_args, start_time>>

\* line 202: get_connector raises after `latency` seconds, nothing catches it
WaitPollRaises(latency) ==
  /\ w_pc = "poll"
  /\ now' = now + latency
  /\ polled' = Append(polled, [at |-> now, took |-> latency, saw |-> "error"])
  /\ w_pc' = "done"
  /\ w_outcome' = "error"
  /\ UNCHANGED <<orchVars, extraVars, aVars, w_args, start_time>>

\* line 210: time.sleep(poll_interval)
WaitSleep ==
  /\ w_pc = "sleep"
  /\ now' = now + w_args.poll_interval
  /\ w_pc' = "loop"
  /\ UNCHANGED <<orchVars, extraVars, aVars, w_args, start_time, polled, w_outcome>>

\* ------------------------------------------------- Pipeline A generation
\* project names a user may type
ProjectNames == {<<"p", "1">>, <<"p", "/", "2">>}

AsciiAlnum ==
  {"a", "b", "c", "d", "e", "f", "g", "h", "i", "j", "k", "l", "m", "n", "o", "p", "q",
   "r", "s", "t", "u", "v", "w", "x", "y", "z", "0", "1", "2", "3", "4", "5", "6", "7",
   "8", "9"} \cup Range(UpperChars)

\* letters and digits outside ASCII, which str.isalnum() accepts as well
UnicodeAlnum == {"é", "²"}

\* str.isalnum() on one character
IsAlnum(c) == c \in AsciiAlnum \cup UnicodeAlnum

\* create_connector_project, app.py line 36 and main.py line 31
SafeProjectName(project_name) ==
  [i \in 1..Len(project_name) |->
     IF IsAlnum(project_name[i]) \/ project_name[i] \in {"_", "-"}
       THEN project_name[i] ELSE "_"]

\* ---- the schema blocks of the agent's answer (app.py 269-294, main.py 175-196)
\* the backquote character, which a TLA+ string cannot hold
Backquote == "backquote"

Fence == <<Backquote, Backquote, Backquote>>

JsonTag == <<"j", "s", "o", "n", "\n">>

\* str.split(sep) for any non-empty sep
RECURSIVE SplitOnFrom(_, _, _, _, _)
SplitOnFrom(s, sep, i, cur, acc) ==
  IF i > Len(s) THEN Append(acc, cur)
  ELSE IF i + Len(sep) - 1 <= Len(s) /\ SubSeq(s, i, i + Len(sep) - 1) = sep
    THEN SplitOnFrom(s, sep, i + Len(sep), <<>>, Append(acc, cur))
  ELSE SplitOnFrom(s, sep, i + 1, Append(cur, s[i]), acc)

SplitOn(s, sep) == SplitOnFrom(s, sep, 1, <<>>, <<>>)

\* s.startswith(prefix)
StartsWith(s, prefix) == Len(s) >= Len(prefix) /\ SubSeq(s, 1, Len(prefix)) = prefix

Whitespace == {" ", "\n", "\t"}

RECURSIVE LStripWs(_)
LStripWs(s) == IF s # <<>> /\ Head(s) \in Whitespace THEN LStripWs(Tail(s)) ELSE s

RECURSIVE RStripWs(_)
RStripWs(s) ==
  IF s # <<>> /\ s[Len(s)] \in Whitespace THEN RStripWs(SubSeq(s, 1, Len(s) - 1)) ELSE s

\* str.strip()
StripWs(s) == RStripWs(LStripWs(s))

\* lines 276-279: one fenced block, its 'json\n' tag and outer whitespace removed
JsonBlock(block) ==
  StripWs(IF StartsWith(block, JsonTag) THEN SubSeq(block, 6, Len(block)) ELSE block)

\* the JSON documents that occur in the answers tried, as text
J_object == <<"{", "\"", "a", "\"", ":", "1", "}">>

J_array == <<"[", "1", "]">>

J_array2 == <<"[", "2", "]">>

J_empty_object == <<"{", "}">>

J_empty_array == <<"[", "]">>

J_null == <<"n", "u", "l", "l">>

\* text that is not JSON
J_prose == <<"x">>

J_open == <<"{">>

\* a Python value that json.loads returns; None is JsonValue("None", <<>>)
JsonValue(type, items) == [type |-> type, items |-> items]

JNone == JsonValue("None", <<>>)

\* json.loads on the documents above: the value, or "JSONDecodeError"
JsonDocuments ==
  {<<J_object, JsonValue("dict", <<"a", "1">>)>>,
   <<J_array, JsonValue("list", <<"1">>)>>,
   <<J_array2, JsonValue("list", <<"2">>)>>,
   <<J_empty_object, JsonValue("dict", <<>>)>>,
   <<J_empty_array, JsonValue("list", <<>>)>>,
   <<J_null, JNone>>}

IsJson(text) == \E d \in JsonDocuments : d[1] = text

JsonLoads(text) == (CHOOSE d \in JsonDocuments : d[1] = text)[2]

\* truth value of what json.loads returned
JsonTruthy(v) == v.items # <<>>

\* lines 269-289 of app.py, 175-194 of main.py: the two schemas as the code
\* leaves them, and whether json.loads raised
ParseSchemas(schemas_text) ==
  LET parts == SplitOn(schemas_text, Fence)
      json_blocks == [k \in 1..(Len(parts) \div 2) |-> JsonBlock(parts[2 * k])]
      none == [firecrawl_schema |-> JNone, fivetran_schema |-> JNone,
               decode_error |-> FALSE]
  IN IF ~Contains(schemas_text, Fence) \/ Len(json_blocks) < 2 THEN none
     ELSE IF ~IsJson(json_blocks[1]) THEN [none EXCEPT !.decode_error = TRUE]
     ELSE IF ~IsJson(json_blocks[2])
       THEN [none EXCEPT !.firecrawl_schema = JsonLoads(json_blocks[1]),
                         !.decode_error = TRUE]
     ELSE [firecrawl_schema |-> JsonLoads(json_blocks[1]),
           fivetran_schema |-> JsonLoads(json_blocks[2]),
           decode_error |-> FALSE]

\* line 291 of app.py, 196 of main.py: both schemas are usable
SchemasUsable(p) == JsonTruthy(p.firecrawl_schema) /\ JsonTruthy(p.fivetran_schema)

\* one fenced block as the agent writes it
Fenced(tagged, payload, closed) ==
  Fence \o (IF tagged THEN JsonTag ELSE <<"\n">>) \o payload \o <<"\n">>
    \o (IF closed THEN Fence \o <<"\n">> ELSE <<>>)

\* answers of the agent that the generation runs are tried with
AgentAnswers ==
  {<<>>,
   J_object,
   Fenced(TRUE, J_object, TRUE),
   Fenced(TRUE, J_object, TRUE) \o Fenced(TRUE, J_array, TRUE),
   Fenced(FALSE, J_object, TRUE) \o Fenced(TRUE, J_array, FALSE),
   Fenced(TRUE, J_object, TRUE) \o Fenced(TRUE, J_empty_array, TRUE),
   Fenced(TRUE, J_object, TRUE) \o Fenced(TRUE, J_prose, TRUE),
   Fenced(TRUE, J_open, TRUE) \o Fenced(TRUE, J_array, TRUE)}

\* ---- the generation runs
S_password == <<"p", "w">>

S_bad_password == <<"b", "a", "d">>

\* what the two API-key fields and their environment fallbacks provide
KeySources == {"both", "no_fivetran", "no_firecrawl"}

\* what a user submits in the web form (destination, URL and prompt filled in)
Form(access_password, project_name, keys) ==
  [access_password |-> access_password, project_name |-> project_name, keys |-> keys]

Forms ==
  {Form(S_password, n, "both") : n \in ProjectNames}
    \cup {Form(<<>>, <<"p", "1">>, "both"),
          Form(S_password, <<>>, "both"),
          Form(S_bad_password, <<"p", "1">>, "both"),
          Form(S_password, <<"p", "1">>, "no_fivetran"),
          Form(S_password, <<"p", "1">>, "no_firecrawl")}

\* os.getenv("ACCESS_PASSWORD") on the server
ServerPasswords == {NoneStr, S_password}

\* checks that compare no password
WebCheckMut(form, correct_password) ==
  IF ~(TruthyStr(form.access_password) /\ TruthyStr(form.project_name))
    THEN "error_required"
  ELSE IF ~TruthyStr(correct_password) THEN "error_password_unset"
  ELSE "ok"

\* app.py lines 177-202: the first check that fails, or "ok"
WebCheck(form, correct_password) ==
  IF ~(TruthyStr(form.access_password) /\ TruthyStr(form.project_name))
    THEN "error_required"
  ELSE IF ~TruthyStr(correct_password) THEN "error_password_unset"
  ELSE IF form.access_password # correct_password THEN "error_invalid_password"
  ELSE IF form.keys = "no_fivetran" THEN "error_fivetran_key"
  ELSE IF form.keys = "no_firecrawl" THEN "error_firecrawl_key"
  ELSE "ok"

\* how the agent run ends: every event clean, an event with an error_code, an
\* exception out of the runner
AgentResults == {"ok", "error_code", "exception"}

\* how the `fivetran deploy` subprocess ends
ProcOutcomes == {"exit0", "nonzero", "timeout", "not_found", "other_exception"}

\* subprocess.run(..., timeout=300)
DeployTimeout == 300

M_timed_out == "Deployment timed out after 5 minutes"

M_not_found ==
  "Fivetran CLI not found. Please install it using: pip install fivetran-cli"

\* a deployer that lets a missing binary's FileNotFoundError through
deploy_to_fivetranMut(proc) ==
  LET ret(success, message) ==
        [proc |-> proc, invoked |-> 1, limit |-> DeployTimeout, raised |-> FALSE,
         success |-> success, message |-> message]
  IN CASE proc = "exit0" -> ret(TRUE, <<"stdout">>)
       [] proc = "nonzero" -> ret(FALSE, <<"Deployment failed:\n", "stderr", "\n", "stdout">>)
       [] proc = "timeout" -> ret(FALSE, <<M_timed_out>>)
       [] proc = "not_found" -> [ret(FALSE, <<>>) EXCEPT !.raised = TRUE]
       [] proc = "other_exception" -> ret(FALSE, <<"Deployment error: ", "str(e)">>)

\* deploy_to_fivetran (app.py 105-140): what it returns, with the subprocess
\* calls it made and whether an exception left it
deploy_to_fivetran(proc) ==
  LET ret(success, message) ==
        [proc |-> proc, invoked |-> 1, limit |-> DeployTimeout, raised |-> FALSE,
         success |-> success, message |-> message]
  IN CASE proc = "exit0" -> ret(TRUE, <<"stdout">>)
       [] proc = "nonzero" -> ret(FALSE, <<"Deployment failed:\n", "stderr", "\n", "stdout">>)
       [] proc = "timeout" -> ret(FALSE, <<M_timed_out>>)
       [] proc = "not_found" -> ret(FALSE, <<M_not_found>>)
       [] proc = "other_exception" -> ret(FALSE, <<"Deployment error: ", "str(e)">>)

NewRun ==
  [pc |-> "new", door |-> "none", form |-> Form(<<>>, <<>>, "both"),
   correct_password |-> NoneStr, overlap |-> FALSE, effects |-> <<>>,
   out |-> "none"]

AIdle ==
  /\ a_dirs = {}
  /\ a_run = [r \in 1..MaxRuns |-> NewRun]

\* no other run is between its first and its last step
Alone(r) == \A q \in 1..MaxRuns : q # r => a_run[q].pc \in {"new", "done"}

\* the run does `effects`, and ends with `out` as its last output
Ends(r, effects, out) ==
  a_run' = [a_run EXCEPT ![r].pc = "done", ![r].out = out,
                         ![r].effects = a_run[r].effects \o effects]

\* the run does `effects`, reports progress and goes on to `pc`
GoesOn(r, effects, to) ==
  a_run' = [a_run EXCEPT ![r].pc = to, ![r].out = "progress",
                         ![r].effects = a_run[r].effects \o effects]

\* an exception leaves the body: the web handler reports it (app.py 435-448),
\* the CLI ends with the traceback
Fails(r, effects) ==
  Ends(r, effects, IF a_run[r].door = "web" THEN "error_exception" ELSE "traceback")

\* app.py generate_connector is submitted (lines 176-202)
A_SubmitWeb(r, form, correct_password) ==
  /\ a_run[r].pc = "new"
  /\ r > 1 => a_run[r - 1].pc # "new"
  /\ LET check == WebCheck(form, correct_password)
     IN a_run' = [a_run EXCEPT ![r] =
          [NewRun EXCEPT !.pc = IF check = "ok" THEN "cleanup" ELSE "done",
                         !.door = "web", !.form = form,
                         !.correct_password = correct_password,
                         !.overlap = ~Alone(r),
                         !.out = IF check = "ok" THEN "progress" ELSE check]]
  /\ UNCHANGED <<orchVars, extraVars, waitVars, a_dirs>>

\* main.py main is started (lines 114-146)
A_StartCli(r, project_name) ==
  /\ a_run[r].pc = "new"
  /\ r > 1 => a_run[r - 1].pc # "new"
  /\ Alone(r)
  /\ a_run' = [a_run EXCEPT ![r] =
       [NewRun EXCEPT !.pc = "agent", !.door = "cli",
                      !.form = Form(<<>>, project_name, "both"),
                      !.out = "progress"]]
  /\ UNCHANGED <<orchVars, extraVars, waitVars, a_dirs>>

\* a cleanup that spares the projects of runs still at work
A_CleanupMut(r) ==
  /\ a_run[r].pc = "cleanup"
  /\ a_dirs' = {d \in a_dirs : \E q \in 1..MaxRuns : a_run[q].pc = "deploy"
                                   /\ d = SafeProjectName(a_run[q].form.project_name)}
  /\ a_run' = [a_run EXCEPT ![r].pc = "agent", ![r].out = "progress",
                            ![r].effects = a_run[r].effects \o <<"delete_all">>]
  /\ UNCHANGED <<orchVars, extraVars, waitVars>>

\* app.py lines 204-214: delete_all_connectors removes every subdirectory
A_Cleanup(r) ==
  /\ a_run[r].pc = "cleanup"
  /\ a_dirs' = {}
  /\ GoesOn(r, <<"delete_all">>, "agent")
  /\ UNCHANGED <<orchVars, extraVars, waitVars>>

\* app.py lines 216-251, main.py lines 127-159: the session is created and the
\* agent is run once; the web UI stops at an event with an error_code, the CLI
\* prints the code and goes on
A_Agent(r, res) ==
  /\ a_run[r].pc = "agent"
  /\ CASE res = "exception" -> Fails(r, <<"create_session", "run_agent">>)
       [] res = "error_code" /\ a_run[r].door = "web" ->
            Ends(r, <<"create_session", "run_agent", "error_event">>, "error_code")
       [] res = "error_code" /\ a_run[r].door = "cli" ->
            GoesOn(r, <<"create_session", "run_agent", "error_event">>, "parse")
       [] OTHER -> GoesOn(r, <<"create_session", "run_agent">>, "parse")
  /\ UNCHANGED <<orchVars, extraVars, waitVars, a_dirs>>

\* app.py lines 253-306, main.py lines 161-203 and 209-213: the session state
\* is read back, the two schemas are parsed out of it and the template is
\* rendered with them
A_Parse(r, session_ok, schemas_text) ==
  /\ a_run[r].pc = "parse"
  /\ LET web == a_run[r].door = "web"
         p == ParseSchemas(schemas_text)
     IN IF ~session_ok
          THEN Ends(r, <<"get_session">>, IF web THEN "error_session" ELSE "warning_session")
        ELSE IF web /\ p.decode_error
          THEN Ends(r, <<"get_session">>, "error_json")
        ELSE IF ~SchemasUsable(p)
          THEN Ends(r, <<"get_session">>, IF web THEN "preview" ELSE "warning_preview")
        ELSE GoesOn(r, <<"get_session", "render">>, "scaffold")
  /\ UNCHANGED <<orchVars, extraVars, waitVars, a_dirs>>

\* create_connector_project (app.py 308-313 and 34-102, main.py 208 and 29-112)
A_Scaffold(r) ==
  /\ a_run[r].pc = "scaffold"
  /\ a_dirs' = a_dirs \cup {SafeProjectName(a_run[r].form.project_name)}
  /\ IF a_run[r].door = "web"
       THEN GoesOn(r, <<"scaffold">>, "deploy")
       ELSE Ends(r, <<"scaffold">>, "project")
  /\ UNCHANGED <<orchVars, extraVars, waitVars>>

\* app.py lines 315-433: deploy_to_fivetran, then the result text and the zip
\* of the project directory
A_Deploy(r, proc, zipped) ==
  /\ a_run[r].pc = "deploy"
  /\ Ends(r, <<"deploy_to_fivetran", "zip">>,
          IF ~zipped THEN "error_exception"
          ELSE IF deploy_to_fivetran(proc).success THEN "result_deployed_zip"
          ELSE "result_deploy_failed_zip")
  /\ UNCHANGED <<orchVars, extraVars, waitVars, a_dirs>>

\* ------------------------------------------- functions applied on their own
\* payloads of the fenced blocks tried
Payloads == {J_object, J_array, J_empty_object, J_empty_array, J_null, J_prose}

Blocks == {Fenced(tagged, payload, TRUE) : tagged \in BOOLEAN, payload \in Payloads}

\* up to n closed blocks, one after the other
RECURSIVE BlockRuns(_)
BlockRuns(n) ==
  IF n = 0 THEN {<<>>}
  ELSE LET shorter == BlockRuns(n - 1)
       IN shorter \cup {s \o b : s \in shorter, b \in Blocks}

S_intro == <<"H", "i", "\n">>

\* the 'schemas' texts the parser is tried with: blocks alone, blocks after a
\* line of prose, and blocks of which the last is left open
SchemaTexts ==
  LET runs == BlockRuns(MaxBlocks)
  IN runs \cup {S_intro \o s : s \in runs}
          \cup {s \o Fenced(TRUE, payload, FALSE) :
                  s \in BlockRuns(MaxBlocks - 1), payload \in Payloads}

NameChars == {"a", "Z", "9", "_", "-", "/", " ", "é"}

RECURSIVE NamesUpTo(_)
NamesUpTo(n) ==
  IF n = 0 THEN {<<>>}
  ELSE LET shorter == NamesUpTo(n - 1)
       IN shorter \cup {Append(s, c) : s \in shorter, c \in NameChars}

\* the project names the sanitizer is tried with
NameInputs == NamesUpTo(MaxNameLen)

\* the parsing stage of generate_connector / main on one text
FnParse ==
  /\ fn_op = "none"
  /\ fn_in \in SchemaTexts
  /\ fn_op' = "ParseSchemas"
  /\ fn_out' = ParseSchemas(fn_in)
  /\ UNCHANGED <<orchVars, waitVars, aVars, bVars, connVars, fn_in>>

\* create_connector_project's sanitizer on one name
FnSanitize ==
  /\ fn_op = "none"
  /\ fn_in \in NameInputs
  /\ fn_op' = "SafeProjectName"
  /\ fn_out' = SafeProjectName(fn_in)
  /\ UNCHANGED <<orchVars, waitVars, aVars, bVars, connVars, fn_in>>

\* deploy_to_fivetran with a deployer subprocess that ends as fn_in says
FnDeploy ==
  /\ fn_op = "none"
  /\ fn_in \in {<<proc>> : proc \in ProcOutcomes}
  /\ fn_op' = "deploy_to_fivetran"
  /\ fn_out' = deploy_to_fivetran(fn_in[1])
  /\ UNCHANGED <<orchVars, waitVars, aVars, bVars, connVars, fn_in>>

\* the sanitizer on a name it has returned
FnSanitizeAgain ==
  /\ fn_op = "SafeProjectName"
  /\ fn_op' = "SafeProjectName again"
  /\ fn_in' = fn_out
  /\ fn_out' = SafeProjectName(fn_out)
  /\ UNCHANGED <<orchVars, waitVars, aVars, bVars, connVars>>

\* ------------------------------------------------ Pipeline B command line
\* the DeploymentConfig of the runs: fivetran.group_name and
\* fivetran.connector_name of .5tran.yml
S_connector_name == <<"c">>

S_group_suffix == <<"_", "g", "r", "o", "u", "p">>

S_group_name == S_connector_name \o S_group_suffix

\* pathlib paths relative to the working directory, as their components:
\* Path(".") has none
Cwd == <<>>

\* path / name
Join(dir, name) == Append(dir, name)

\* path.parent
Parent(path) == SubSeq(path, 1, Len(path) - 1)

F_config == ".5tran.yml"

F_info == ".5tran-deployment.yml"

\* generate --output, default "./generated" (generate.py line 25)
DefaultOutput == <<"generated">>

\* deploy --config, default "./.5tran.yml" (deploy.py line 22)
DefaultConfig == Join(Cwd, F_config)

\* status check --config, default "./.5tran-deployment.yml" (status.py line 21)
DefaultInfo == Join(Cwd, F_info)

OutputDirs == {Cwd, DefaultOutput}

YamlPaths == {Join(dir, name) : dir \in OutputDirs, name \in {F_config, F_info}}

\* generate.py, lines 79-80: the pipeline name derived from the description
PipelineName(description) ==
  SelectSeq(Replace(Replace(Lower(description), " ", "_"), "-", "_"),
            LAMBDA c : IsAlnum(c) \/ c = "_")

\* generate.py, lines 172-200: the DeploymentConfig (the fields deploy reads)
DeploymentConfig(pipeline_name) ==
  [name |-> pipeline_name,
   group_name |-> pipeline_name \o S_group_suffix,
   connector_name |-> pipeline_name]

\* deploy.py _save_deployment_info, lines 305-309
DeploymentInfo(res, config) == [resources |-> res, config |-> config]

\* descriptions given to generate
Descriptions == {<<"C">>, <<"!">>}

\* those of the pipeline named S_connector_name
SameDescriptions == {d \in Descriptions : PipelineName(d) = S_connector_name}

NoGenerate == [description |-> <<>>, output |-> DefaultOutput]

S_other_name == <<"o">>

S_big_query == "big_query"

\* ids: the platform's resources are numbered by the run that created them,
\* 0 for those that were there before
Id(kind, n) == <<kind, n>>

\* a key that resources does not hold
NoId == Id("absent", 0)

Group(n, name) == [id |-> Id("group", n), name |-> name]

Destination(n, group_id, service) ==
  [id |-> Id("destination", n), group_id |-> group_id, service |-> service]

Connector(n, group_id, schema) ==
  [id |-> Id("connector", n), group_id |-> group_id, schema |-> schema]

\* platform states the runs may start from
PlatformStates ==
  {[groups |-> g, destinations |-> d, connectors |-> c] :
     g \in {<<>>, <<Group(0, S_other_name)>>, <<Group(0, S_group_name)>>},
     d \in {<<>>, <<Destination(0, Id("group", 0), "snowflake")>>,
            <<Destination(0, Id("group", 0), S_big_query)>>},
     c \in {<<>>, <<Connector(0, Id("group", 0), S_other_name)>>,
            <<Connector(0, Id("group", 0), S_connector_name)>>}}

\* a destination or connector belongs to a group that exists
Consistent(p) == (p.groups = <<>>) => (p.destinations = <<>> /\ p.connectors = <<>>)

\* next(iter(hits), None): the first of the items kept, None when there is none
First(hits) == IF hits = <<>> THEN None ELSE hits[1]

NoResources == [group_id |-> NoId, destination_id |-> NoId, connector_id |-> NoId]

NoCheck == [config |-> DefaultInfo, given |-> NoId, connector_id |-> NoId]

\* deploy_config is the local of that name, None until the file is read
NoOptions ==
  [config |-> DefaultConfig, deploy_config |-> None, credentials |-> FALSE,
   confirmed |-> FALSE, skip_tests |-> FALSE, no_sync |-> FALSE]

\* the options of a deploy run and what it finds, --config left at its
\* default: everything in place with or without --skip-tests and --no-sync, or
\* the credentials missing, or the confirmation declined
DeployOptions ==
  {[NoOptions EXCEPT !.credentials = TRUE, !.confirmed = TRUE,
                     !.skip_tests = t, !.no_sync = n] : t, n \in BOOLEAN}
    \cup {NoOptions, [NoOptions EXCEPT !.credentials = TRUE]}

BIdle ==
  /\ platform = [groups |-> <<>>, destinations |-> <<>>, connectors |-> <<>>]
  /\ d_pc = "idle"
  /\ d_opts = NoOptions
  /\ resources = NoResources
  /\ d_calls = <<>>
  /\ b_disk = [path \in YamlPaths |-> None]
  /\ g_opts = NoGenerate
  /\ s_check = NoCheck
  /\ d_saved = <<>>
  /\ d_run = 0
  /\ b_cmd = "none"
  /\ b_fail = {}
  /\ b_exit = -1

\* the command ends: raise typer.Exit(code), or the function returns (code 0)
Exits(code, failures) ==
  /\ d_pc' = "idle"
  /\ b_exit' = code
  /\ b_fail' = b_fail \cup failures

\* deploy.py pipeline, lines 42-85: config, credentials, plan, confirmation
D_Start(opts) ==
  /\ d_pc = "idle"
  /\ d_run < MaxDeploys
  /\ d_run' = d_run + 1
  /\ b_cmd' = "deploy"
  /\ d_opts' = [opts EXCEPT !.deploy_config = b_disk[opts.config]]
  /\ resources' = NoResources
  /\ d_calls' = <<>>
  /\ IF b_disk[opts.config] = None
       THEN d_pc' = "idle" /\ b_exit' = 1 /\ b_fail' = {"missing_config"}
     ELSE IF ~opts.credentials
       THEN d_pc' = "idle" /\ b_exit' = 1 /\ b_fail' = {"missing_credentials"}
     ELSE IF ~opts.confirmed
       THEN d_pc' = "idle" /\ b_exit' = 0 /\ b_fail' = {}
     ELSE d_pc' = "group" /\ b_exit' = -1 /\ b_fail' = {}
  /\ g_opts' = NoGenerate
  /\ s_check' = NoCheck
  /\ UNCHANGED <<orchVars, waitVars, aVars, fnVars, connVars, platform, b_disk, d_saved>>

\* lines 93-115: find the group by name or create it
D_Group(list_ok, create_ok) ==
  /\ d_pc = "group"
  /\ LET group_name == d_opts.deploy_config.group_name
         IsNamed(g) == g.name = group_name
         existing_group == First(SelectSeq(platform.groups, IsNamed))
         created == Group(d_run, group_name)
     IN IF ~list_ok
          THEN /\ Exits(1, {"api_group"})
               /\ d_calls' = Append(d_calls, "list_groups")
               /\ UNCHANGED <<platform, resources>>
        ELSE IF existing_group # None
          THEN /\ resources' = [resources EXCEPT !.group_id = existing_group.id]
               /\ d_calls' = Append(d_calls, "list_groups")
               /\ d_pc' = "destination"
               /\ UNCHANGED <<platform, b_exit, b_fail>>
        ELSE IF ~create_ok
          THEN /\ Exits(1, {"api_group"})
               /\ d_calls' = d_calls \o <<"list_groups", "create_group">>
               /\ UNCHANGED <<platform, resources>>
        ELSE /\ platform' = [platform EXCEPT !.groups = Append(@, created)]
             /\ resources' = [resources EXCEPT !.group_id = created.id]
             /\ d_calls' = d_calls \o <<"list_groups", "create_group">>
             /\ d_pc' = "destination"
             /\ UNCHANGED <<b_exit, b_fail>>
  /\ UNCHANGED <<orchVars, waitVars, aVars, fnVars, connVars, d_opts, b_disk, g_opts, s_check, d_saved, d_run, b_cmd>>

\* lines 117-150: find a big_query destination of the group or create one; a
\* failure is reported and the run goes on
D_Destination(list_ok, create_ok) ==
  /\ d_pc = "destination"
  /\ LET IsBigQuery(x) == x.group_id = resources.group_id /\ x.service = S_big_query
         existing_dest == First(SelectSeq(platform.destinations, IsBigQuery))
         created == Destination(d_run, resources.group_id, S_big_query)
     IN IF ~list_ok
          THEN /\ b_fail' = b_fail \cup {"api_destination"}
               /\ d_calls' = Append(d_calls, "list_destinations")
               /\ UNCHANGED <<platform, resources>>
        ELSE IF existing_dest # None
          THEN /\ resources' = [resources EXCEPT !.destination_id = existing_dest.id]
               /\ d_calls' = Append(d_calls, "list_destinations")
               /\ UNCHANGED <<platform, b_fail>>
        ELSE IF ~create_ok
          THEN /\ b_fail' = b_fail \cup {"api_destination"}
               /\ d_calls' = d_calls \o <<"list_destinations", "create_destination">>
               /\ UNCHANGED <<platform, resources>>
        ELSE /\ platform' = [platform EXCEPT !.destinations = Append(@, created)]
             /\ resources' = [resources EXCEPT !.destination_id = created.id]
             /\ d_calls' = d_calls \o <<"list_destinations", "create_destination">>
             /\ UNCHANGED b_fail
  /\ d_pc' = "connector"
  /\ UNCHANGED <<orchVars, waitVars, aVars, fnVars, connVars, d_opts, b_disk, g_opts, s_check, d_saved, d_run, b_cmd,
                 b_exit>>

\* a connector step that creates without looking
D_ConnectorMut(list_ok, create_ok) ==
  /\ d_pc = "connector"
  /\ LET created == Connector(d_run, resources.group_id, d_opts.deploy_config.connector_name)
     IN IF ~list_ok \/ ~create_ok
          THEN /\ Exits(1, {"api_connector"})
               /\ d_calls' = d_calls \o <<"list_connectors", "create_connector">>
               /\ UNCHANGED <<platform, resources>>
        ELSE /\ platform' = [platform EXCEPT !.connectors = Append(@, created)]
             /\ resources' = [resources EXCEPT !.connector_id = created.id]
             /\ d_calls' = d_calls \o <<"list_connectors", "create_connector">>
             /\ d_pc' = "test"
             /\ UNCHANGED <<b_exit, b_fail>>
  /\ UNCHANGED <<orchVars, waitVars, aVars, fnVars, connVars, d_opts, b_disk, g_opts, s_check, d_saved, d_run, b_cmd>>

\* lines 152-198: find the connector by schema name in the group or create it
D_Connector(list_ok, create_ok) ==
  /\ d_pc = "connector"
  /\ LET connector_name == d_opts.deploy_config.connector_name
         IsNamed(c) == c.group_id = resources.group_id /\ c.schema = connector_name
         existing_connector == First(SelectSeq(platform.connectors, IsNamed))
         created == Connector(d_run, resources.group_id, connector_name)
     IN IF ~list_ok
          THEN /\ Exits(1, {"api_connector"})
               /\ d_calls' = Append(d_calls, "list_connectors")
               /\ UNCHANGED <<platform, resources>>
        ELSE IF existing_connector # None
          THEN /\ resources' = [resources EXCEPT !.connector_id = existing_connector.id]
               /\ d_calls' = Append(d_calls, "list_connectors")
               /\ d_pc' = "test"
               /\ UNCHANGED <<platform, b_exit, b_fail>>
        ELSE IF ~create_ok
          THEN /\ Exits(1, {"api_connector"})
               /\ d_calls' = d_calls \o <<"list_connectors", "create_connector">>
               /\ UNCHANGED <<platform, resources>>
        ELSE /\ platform' = [platform EXCEPT !.connectors = Append(@, created)]
             /\ resources' = [resources EXCEPT !.connector_id = created.id]
             /\ d_calls' = d_calls \o <<"list_connectors", "create_connector">>
             /\ d_pc' = "test"
             /\ UNCHANGED <<b_exit, b_fail>>
  /\ UNCHANGED <<orchVars, waitVars, aVars, fnVars, connVars, d_opts, b_disk, g_opts, s_check, d_saved, d_run, b_cmd>>

\* lines 200-212: the connector test, unless --skip-tests
D_Test(test) ==
  /\ d_pc = "test"
  /\ IF d_opts.skip_tests
       THEN UNCHANGED <<d_calls, b_fail>>
       ELSE /\ d_calls' = Append(d_calls, "test_connector")
            /\ b_fail' = IF test = "passed" THEN b_fail ELSE b_fail \cup {"test"}
  /\ d_pc' = "sync"
  /\ UNCHANGED <<orchVars, waitVars, aVars, fnVars, connVars, platform, d_opts, resources, b_disk,
                 g_opts, s_check, d_saved, d_run, b_cmd, b_exit>>

\* lines 214-223: the initial sync, unless --no-sync
D_Sync(sync_ok) ==
  /\ d_pc = "sync"
  /\ IF d_opts.no_sync
       THEN UNCHANGED <<d_calls, b_fail>>
       ELSE /\ d_calls' = Append(d_calls, "sync_connector")
            /\ b_fail' = IF sync_ok THEN b_fail ELSE b_fail \cup {"api_sync"}
  /\ d_pc' = "save"
  /\ UNCHANGED <<orchVars, waitVars, aVars, fnVars, connVars, platform, d_opts, resources, b_disk,
                 g_opts, s_check, d_saved, d_run, b_cmd, b_exit>>

\* a last step that keeps the file for runs without a failure
D_SaveMut ==
  /\ d_pc = "save"
  /\ b_disk' = IF b_fail = {}
                 THEN [b_disk EXCEPT ![Join(Parent(d_opts.config), F_info)] =
                         DeploymentInfo(resources, d_opts.deploy_config)]
                 ELSE b_disk
  /\ d_saved' = IF b_fail = {} THEN Append(d_saved, resources) ELSE d_saved
  /\ d_pc' = "idle"
  /\ b_exit' = IF b_fail = {} THEN 0 ELSE 1
  /\ UNCHANGED <<orchVars, waitVars, aVars, fnVars, connVars, platform, d_opts, resources, d_calls,
                 g_opts, s_check, d_run, b_cmd, b_fail>>

\* lines 225-265 and _save_deployment_info: the results are shown and the
\* DeploymentInfo file is written beside the config
D_Save ==
  /\ d_pc = "save"
  /\ b_disk' = [b_disk EXCEPT ![Join(Parent(d_opts.config), F_info)] =
                  DeploymentInfo(resources, d_opts.deploy_config)]
  /\ d_saved' = Append(d_saved, resources)
  /\ d_pc' = "idle"
  /\ b_exit' = 0
  /\ UNCHANGED <<orchVars, waitVars, aVars, fnVars, connVars, platform, d_opts, resources, d_calls,
                 g_opts, s_check, d_run, b_cmd, b_fail>>

\* another command starts: the locals of the deploy run before it are gone
DeployOver ==
  /\ d_opts' = NoOptions
  /\ resources' = NoResources
  /\ d_calls' = <<>>

\* status.py list (lines 78-105) with _list_all_connectors (166-177)
S_List(credentials, api_ok) ==
  /\ d_pc = "idle"
  /\ b_cmd' = "status list"
  /\ IF ~credentials THEN b_exit' = 1 /\ b_fail' = {"missing_credentials"}
     ELSE IF ~api_ok THEN b_exit' = 0 /\ b_fail' = {"api_list_connectors"}
     ELSE b_exit' = 0 /\ b_fail' = {}
  /\ g_opts' = NoGenerate
  /\ s_check' = NoCheck
  /\ DeployOver
  /\ UNCHANGED <<orchVars, waitVars, aVars, fnVars, connVars, platform, d_pc, b_disk, d_saved, d_run>>

\* status.py check (lines 19-74): the connector id comes from --connector-id
\* or from the DeploymentInfo file; without one, all connectors are listed
S_Check(credentials, config, connector_id_given, api_ok) ==
  /\ d_pc = "idle"
  /\ b_cmd' = "status check"
  /\ LET connector_id ==
           IF connector_id_given # NoId THEN connector_id_given
           ELSE IF b_disk[config] # None THEN b_disk[config].resources.connector_id
           ELSE NoId
     IN IF ~credentials
          THEN b_exit' = 1 /\ b_fail' = {"missing_credentials"} /\ s_check' = NoCheck
        ELSE /\ s_check' = [config |-> config, given |-> connector_id_given,
                            connector_id |-> connector_id]
             /\ IF connector_id = NoId
                  THEN /\ b_exit' = 0
                       /\ b_fail' = IF api_ok THEN {} ELSE {"api_list_connectors"}
                ELSE IF ~api_ok THEN b_exit' = 1 /\ b_fail' = {"api_status"}
                ELSE b_exit' = 0 /\ b_fail' = {}
  /\ g_opts' = NoGenerate
  /\ DeployOver
  /\ UNCHANGED <<orchVars, waitVars, aVars, fnVars, connVars, platform, d_pc, b_disk, d_saved, d_run>>

\* generate.py pipeline, lines 41-206: the spec file is looked up and parsed,
\* the pipeline name derived, the connector and the dbt project generated
\* and .5tran.yml written into the output directory
G_Generate(description, output, spec_exists, parse_ok) ==
  /\ d_pc = "idle"
  /\ b_cmd' = "generate"
  /\ g_opts' = [description |-> description, output |-> output]
  /\ IF ~spec_exists
       THEN b_exit' = 1 /\ b_fail' = {"missing_spec"} /\ UNCHANGED b_disk
     ELSE IF ~parse_ok
       THEN b_exit' = 1 /\ b_fail' = {"bad_spec"} /\ UNCHANGED b_disk
     ELSE /\ b_exit' = 0
          /\ b_fail' = {}
          /\ b_disk' = [b_disk EXCEPT ![Join(output, F_config)] =
                          DeploymentConfig(PipelineName(description))]
  /\ s_check' = NoCheck
  /\ DeployOver
  /\ UNCHANGED <<orchVars, waitVars, aVars, fnVars, connVars, platform, d_pc, d_saved, d_run>>

\* -------------------------------- the Pipeline A connector at run time
\* connector_template.py with its placeholders filled in
UrlToExtract == "https://site"

\* FIVETRAN_SCHEMA as the generation run embedded it
EmbeddedSchemas == {<<[table |-> "t1"], [table |-> "t2"]>>, <<[table |-> "t2"]>>, <<>>}

\* configuration.json: the key may be missing, the url missing or empty
SyncConfigurations ==
  {[firecrawl_api_key |-> k, url |-> u] :
     k \in {"None", "key"}, u \in {"None", "", "https://other"}}

SyncStates == {[cursor |-> 0], [cursor |-> 1]}

Exc(type, message) == [type |-> type, message |-> message]

\* lines 115-135: what leaves update() for an exception raised inside it
Escalated(e) ==
  IF e.type = "ValueError"
    THEN Exc("RuntimeError", <<"Configuration error: ", e.message>>)
    ELSE Exc("RuntimeError", <<"Error: ", e.message, "\nStack Trace:\n", "traceback">>)

NoSync ==
  [pc |-> "idle", configuration |-> None, env_key |-> "None", state |-> None,
   schema |-> <<>>, data |-> <<>>, i |-> 0, ops |-> <<>>, out |-> None]

\* the pass ends with the exception e, raised at `cause`
SyncRaises(cause, e) ==
  sync' = [sync EXCEPT !.pc = "done",
                       !.out = [kind |-> "raised", cause |-> cause, original |-> e,
                                error |-> Escalated(e)]]

\* update(), lines 24-40: the key and the url are looked up
U_Update(configuration, env_key, state, schema) ==
  /\ sync.pc \in {"idle", "done"}
  /\ LET firecrawl_api_key ==
           IF configuration.firecrawl_api_key # "None"
             THEN configuration.firecrawl_api_key ELSE env_key
         url == IF configuration.url = "None" THEN UrlToExtract ELSE configuration.url
         called == [NoSync EXCEPT !.configuration = configuration, !.env_key = env_key,
                                  !.state = state, !.schema = schema]
     IN IF firecrawl_api_key = "None"
          THEN sync' =
                 [called EXCEPT !.pc = "done",
                    !.out = [kind |-> "raised", cause |-> "configuration",
                             original |-> Exc("ValueError", "firecrawl_api_key not found"),
                             error |-> Escalated(Exc("ValueError", "firecrawl_api_key not found"))]]
        ELSE IF url = ""
          THEN sync' =
                 [called EXCEPT !.pc = "done",
                    !.out = [kind |-> "raised", cause |-> "configuration",
                             original |-> Exc("ValueError", "url not found"),
                             error |-> Escalated(Exc("ValueError", "url not found"))]]
        ELSE sync' = [called EXCEPT !.pc = "init"]
  /\ UNCHANGED <<orchVars, waitVars, aVars, fnVars, bVars, fetch>>

\* how a call into the extraction service or the SDK may end
CallOutcomes == {"ok", "ValueError", "ConnectionError"}

\* lines 42-48: the client is constructed
U_Init(ended) ==
  /\ sync.pc = "init"
  /\ IF ended = "ok"
       THEN sync' = [sync EXCEPT !.pc = "scrape"]
       ELSE SyncRaises("init", Exc(ended, "client"))
  /\ UNCHANGED <<orchVars, waitVars, aVars, fnVars, bVars, fetch>>

\* lines 50-95: the scrape, result.json['data'], and the table name
U_Scrape(ended, n, has_data) ==
  /\ sync.pc = "scrape"
  /\ IF ended # "ok"
       THEN SyncRaises("scrape", Exc(ended, "scrape"))
     ELSE IF ~has_data
       THEN SyncRaises("result", Exc("KeyError", "'data'"))
     ELSE IF n = 0
       THEN sync' = [sync EXCEPT !.pc = "checkpoint"]
     ELSE IF sync.schema = <<>>
       THEN SyncRaises("schema", Exc("IndexError", "list index out of range"))
     ELSE sync' = [sync EXCEPT !.pc = "upsert", !.data = [k \in 1..n |-> k], !.i = 1]
  /\ UNCHANGED <<orchVars, waitVars, aVars, fnVars, bVars, fetch>>

\* an upsert loop that skips a record whose upsert fails
U_UpsertMut(ended) ==
  /\ sync.pc = "upsert"
  /\ sync' = [sync EXCEPT
                !.ops = IF ended = "ok"
                          THEN Append(@, [op |-> "upsert", table |-> sync.schema[1].table,
                                          data |-> sync.data[sync.i]])
                          ELSE @,
                !.i = @ + 1,
                !.pc = IF sync.i = Len(sync.data) THEN "checkpoint" ELSE "upsert"]
  /\ UNCHANGED <<orchVars, waitVars, aVars, fnVars, bVars, fetch>>

\* lines 97-104: one turn of the upsert loop
U_Upsert(ended) ==
  /\ sync.pc = "upsert"
  /\ IF ended = "ok"
       THEN sync' = [sync EXCEPT
                       !.ops = Append(@, [op |-> "upsert", table |-> sync.schema[1].table,
                                          data |-> sync.data[sync.i]]),
                       !.i = @ + 1,
                       !.pc = IF sync.i = Len(sync.data) THEN "checkpoint" ELSE "upsert"]
       ELSE SyncRaises("upsert", Exc(ended, "upsert"))
  /\ UNCHANGED <<orchVars, waitVars, aVars, fnVars, bVars, fetch>>

\* lines 110-113: the checkpoint
U_Checkpoint(ended) ==
  /\ sync.pc = "checkpoint"
  /\ IF ended = "ok"
       THEN sync' = [sync EXCEPT
                       !.ops = Append(@, [op |-> "checkpoint", state |-> sync.state]),
                       !.pc = "done",
                       !.out = [kind |-> "returned"]]
       ELSE SyncRaises("checkpoint", Exc(ended, "checkpoint"))
  /\ UNCHANGED <<orchVars, waitVars, aVars, fnVars, bVars, fetch>>

\* -------------------------------- the Pipeline B connector at run time
\* get_endpoint_data, line 102
PerPage == 100

\* what the server answers to a page request: a JSON list of n records, a
\* JSON object holding n records under `key` ("none": under none of the
\* three), another JSON value, or a failure that requests reports
Responses ==
  {[shape |-> "list", key |-> "none", n |-> n, has_more |-> FALSE, next |-> FALSE] :
     n \in {0, 1, PerPage}}
    \cup {[shape |-> "dict", key |-> k, n |-> n, has_more |-> h, next |-> x] :
            k \in {"data", "results", "items"}, n \in {0, 1, PerPage}, h, x \in BOOLEAN}
    \cup {[shape |-> "dict", key |-> "none", n |-> 0, has_more |-> h, next |-> x] :
            h, x \in BOOLEAN}
    \cup {[shape |-> s, key |-> "none", n |-> 0, has_more |-> FALSE, next |-> FALSE] :
            s \in {"other", "RequestException"}}

\* a list of records: the n records of a page, or the response itself as the
\* only record
Records(page, n, wrapper) == [page |-> page, n |-> n, wrapper |-> wrapper]

\* lines 111-122: the records of a response
Normalized(page, data) ==
  IF data.shape = "list" THEN Records(page, data.n, FALSE)
  ELSE IF data.shape = "dict" /\ data.key # "none" /\ data.n > 0
    THEN Records(page, data.n, FALSE)
  ELSE Records(page, 1, TRUE)

\* lines 131-138: are there more pages?
HasMore(data, records) ==
  IF data.shape = "dict"
    THEN data.has_more \/ data.next \/ records.n = PerPage
    ELSE records.n = PerPage

NoFetch ==
  [pc |-> "idle", page |-> 1, has_more |-> TRUE, all_records |-> <<>>,
   requests |-> <<>>, responses |-> <<>>]

\* get_endpoint_data is called (lines 93-95)
F_Call ==
  /\ fetch.pc \in {"idle", "done"}
  /\ fetch' = [NoFetch EXCEPT !.pc = "loop"]
  /\ UNCHANGED <<orchVars, waitVars, aVars, fnVars, bVars, sync>>

\* lines 97-142: one turn of the loop
F_Page(response) ==
  /\ fetch.pc = "loop"
  /\ fetch.has_more
  /\ fetch.page <= MaxPages
  /\ LET asked == [fetch EXCEPT
                     !.requests = Append(@, [page |-> fetch.page, per_page |-> PerPage]),
                     !.responses = Append(@, response)]
         records == Normalized(fetch.page, response)
     IN IF response.shape = "RequestException"
          THEN fetch' = [asked EXCEPT !.has_more = FALSE]
        ELSE IF records.n = 0
          THEN fetch' = [asked EXCEPT !.has_more = FALSE]
        ELSE fetch' = [asked EXCEPT !.all_records = Append(@, records),
                                    !.page = @ + 1,
                                    !.has_more = HasMore(response, records)]
  /\ UNCHANGED <<orchVars, waitVars, aVars, fnVars, bVars, sync>>

\* line 144: the loop is over
F_Return ==
  /\ fetch.pc = "loop"
  /\ ~fetch.has_more
  /\ fetch' = [fetch EXCEPT !.pc = "done"]
  /\ UNCHANGED <<orchVars, waitVars, aVars, fnVars, bVars, sync>>

ConnIdle == sync = NoSync /\ fetch = NoFetch

\* ------------------------------------------------ Pipeline Creator tab
\* what the form holds: the auto-deploy box, the group id field, and whether
\* the API URL and API key fields are filled in
UiForms ==
  {[auto_deploy |-> FALSE, group_id |-> <<>>, api_fields |-> FALSE]}
    \cup {[auto_deploy |-> TRUE, group_id |-> g, api_fields |-> f] :
            g \in {<<>>, <<" ">>, S_group}, f \in BOOLEAN}

\* FiveTranUI.create_pipeline, lines 29-72: the form is read, and either the
\* handler returns at once or the orchestrator is called
UI_CreatePipeline(requirements, openapi_spec, form) ==
  /\ ui.pc # "calling"
  /\ IF form.auto_deploy /\ (~TruthyStr(form.group_id) \/ ~form.api_fields)
       THEN /\ ui' = [pc |-> "done", auto_deploy |-> TRUE,
                      out |-> [kind |-> "missing_fields"]]
            /\ UNCHANGED <<process, current_pipeline, pc, entry, args, locals, trace,
                           files, cwd, original_dir, calls, last_ok, outcome>>
       ELSE /\ CreatePipeline(requirements, openapi_spec, form.auto_deploy,
                               IF form.auto_deploy THEN StripWs(form.group_id) ELSE NoneStr,
                               IF form.auto_deploy THEN [api_key |-> "k"] ELSE None)
            /\ ui' = [pc |-> "calling", auto_deploy |-> form.auto_deploy, out |-> None]

\* FiveTranUI.create_pipeline, lines 81-133: the summary of a result
Render(info, auto_deploy) ==
  IF info.fivetran.deployed
    THEN [kind |-> "deployed", connector_id |-> info.fivetran.connector_id]
  ELSE IF auto_deploy
    THEN IF info.fivetran.deployment = None
           THEN [kind |-> "error", error |-> "'NoneType' object has no attribute 'get'"]
           ELSE [kind |-> "failed", error |-> info.fivetran.deployment.error]
  ELSE [kind |-> "not_attempted"]

\* FiveTranUI.create_pipeline, lines 74-136: the orchestrator has returned or
\* raised, and the handler returns the summary or the error
UI_Render ==
  /\ ui.pc = "calling"
  /\ pc = "idle"
  /\ ui' = [ui EXCEPT !.pc = "done",
                      !.out = IF outcome.kind = "raised"
                                THEN [kind |-> "error", error |-> outcome.error]
                                ELSE Render(outcome.value, ui.auto_deploy)]
  /\ UNCHANGED <<process, current_pipeline, pc, entry, args, locals, trace,
                 files, cwd, original_dir, calls, last_ok, outcome>>

\* ------------------------------------------------------ specifications
\* an orchestrator that is constructed and never called
OrchIdle == OrchInit /\ agent /\ mock_mode

FnIdle == fn_op = "none" /\ fn_in = <<>> /\ fn_out = <<>>

ExtraIdle == FnIdle /\ BIdle /\ ConnIdle

InitWait == OrchIdle /\ WaitIdle /\ AIdle /\ ExtraIdle

NextWait ==
  \/ \E t \in 0..MaxTimeout, p \in 1..MaxInterval : WaitCall(t, p)
  \/ WaitCheck
  \/ \E l \in 0..MaxLatency, st \in SetupStates : WaitPoll(l, st)
  \/ \E l \in 0..MaxLatency : WaitPollRaises(l)
  \/ WaitSleep

SpecWait == InitWait /\ [][NextWait]_vars

InitA == OrchIdle /\ WaitIdle /\ AIdle /\ ExtraIdle

NextA ==
  \/ \E r \in 1..MaxRuns, f \in Forms, c \in ServerPasswords : A_SubmitWeb(r, f, c)
  \/ \E r \in 1..MaxRuns, n \in ProjectNames : A_StartCli(r, n)
  \/ \E r \in 1..MaxRuns : A_Cleanup(r)
  \/ \E r \in 1..MaxRuns, res \in AgentResults : A_Agent(r, res)
  \/ \E r \in 1..MaxRuns, ok \in BOOLEAN, t \in AgentAnswers : A_Parse(r, ok, t)
  \/ \E r \in 1..MaxRuns : A_Scaffold(r)
  \/ \E r \in 1..MaxRuns, p \in ProcOutcomes, z \in BOOLEAN : A_Deploy(r, p, z)

SpecA == InitA /\ [][NextA]_vars

InitFn ==
  /\ OrchIdle /\ WaitIdle /\ AIdle /\ BIdle /\ ConnIdle
  /\ fn_op = "none"
  /\ fn_in \in SchemaTexts \cup NameInputs \cup {<<proc>> : proc \in ProcOutcomes}
  /\ fn_out = <<>>

NextFn ==
  \/ FnParse
  \/ FnSanitize
  \/ FnSanitizeAgain
  \/ FnDeploy

SpecFn == InitFn /\ [][NextFn]_vars

InitB ==
  /\ OrchIdle /\ WaitIdle /\ AIdle /\ FnIdle /\ ConnIdle
  /\ platform \in {p \in PlatformStates : Consistent(p)}
  /\ d_pc = "idle" /\ d_opts = NoOptions /\ resources = NoResources
  /\ d_calls = <<>> /\ b_disk = [path \in YamlPaths |-> None] /\ g_opts = NoGenerate
  /\ s_check = NoCheck /\ d_saved = <<>> /\ d_run = 0
  /\ b_cmd = "none" /\ b_fail = {} /\ b_exit = -1

NextB ==
  \/ \E o \in DeployOptions : D_Start(o)
  \/ \E l, c \in BOOLEAN : D_Group(l, c)
  \/ \E l, c \in BOOLEAN : D_Destination(l, c)
  \/ \E l, c \in BOOLEAN : D_Connector(l, c)
  \/ \E t \in {"passed", "failed", "raised"} : D_Test(t)
  \/ \E ok \in BOOLEAN : D_Sync(ok)
  \/ D_Save
  \/ \E c, a \in BOOLEAN : S_List(c, a)
  \/ \E c, a \in BOOLEAN, f \in {DefaultInfo, Join(DefaultOutput, F_info)},
        i \in {NoId, Id("connector", 0)} : S_Check(c, f, i, a)
  \/ \E d \in SameDescriptions, o \in OutputDirs, e, ok \in BOOLEAN :
        G_Generate(d, o, e, ok)

SpecB == InitB /\ [][NextB]_vars

InitSync == OrchIdle /\ WaitIdle /\ AIdle /\ FnIdle /\ BIdle /\ ConnIdle

NextSync ==
  \/ \E c \in SyncConfigurations, k \in {"None", "key"}, st \in SyncStates,
        sc \in EmbeddedSchemas : U_Update(c, k, st, sc)
  \/ \E o \in CallOutcomes : U_Init(o)
  \/ \E o \in CallOutcomes, n \in 0..MaxRecords, d \in BOOLEAN : U_Scrape(o, n, d)
  \/ \E o \in CallOutcomes : U_Upsert(o)
  \/ \E o \in CallOutcomes : U_Checkpoint(o)

SpecSync == InitSync /\ [][NextSync]_vars

NextFetch ==
  \/ F_Call
  \/ \E r \in Responses : F_Page(r)
  \/ F_Return

SpecFetch == InitSync /\ [][NextFetch]_vars

\* the same command line on a fresh account, generate given any description
InitG == OrchIdle /\ WaitIdle /\ AIdle /\ FnIdle /\ BIdle /\ ConnIdle

NextG ==
  \/ \E o \in DeployOptions : D_Start(o)
  \/ \E l, c \in BOOLEAN : D_Group(l, c)
  \/ \E l, c \in BOOLEAN : D_Destination(l, c)
  \/ \E l, c \in BOOLEAN : D_Connector(l, c)
  \/ \E t \in {"passed", "failed", "raised"} : D_Test(t)
  \/ \E ok \in BOOLEAN : D_Sync(ok)
  \/ D_Save
  \/ \E c, a \in BOOLEAN : S_List(c, a)
  \/ \E c, a \in BOOLEAN, f \in {DefaultInfo, Join(DefaultOutput, F_info)},
        i \in {NoId, Id("connector", 0)} : S_Check(c, f, i, a)
  \/ \E d \in Descriptions, o \in OutputDirs, e, ok \in BOOLEAN :
        G_Generate(d, o, e, ok)

SpecG == InitG /\ [][NextG]_vars

\* the directories a caller may hand to deploy_connector
KnownDirs == {ConnectorDir(S_API_Source), ConnectorDir(S_My_API)}

Init == OrchInit /\ WaitIdle /\ AIdle /\ ExtraIdle

Next ==
  \/ \E r \in Requirements, o \in OpenAPISpecs, a \in BOOLEAN,
        g \in GroupIds, c \in Credentials :
          CreatePipeline(r, o, a, g, c) /\ UNCHANGED ui
  \/ CP_AnalyzeFallback
  \/ \E e \in AgentEntityLists, m \in AgentMetrics : CP_AnalyzeAgent(e, m)
  \/ CP_AnalyzeRaises
  \/ CP_Parse
  \/ CP_Generate
  \/ CP_GenerateRaises
  \/ CP_SkipDeploy
  \/ CP_EnterDeploy
  \/ \E d \in KnownDirs, g \in GroupIds, c \in Credentials : DeployConnector(d, g, c)
  \/ DC_Config
  \/ FM_Enter
  \/ \E cli \in CliOutcomes, out \in Stdouts : FM_Run(cli, out)
  \/ \E ok \in BOOLEAN : DC_Finish(ok)
  \/ CP_Warehouse
  \/ CP_Dbt
  \/ CP_DbtRaises
  \/ CP_Store
  \/ GetStatus

Spec == Init /\ [][Next]_vars

\* the orchestrator behind the Pipeline Creator tab
NextUI ==
  \/ \E r \in Requirements, o \in {"None", "valid"}, f \in UiForms :
        UI_CreatePipeline(r, o, f)
  \/ CP_AnalyzeFallback
  \/ \E e \in AgentEntityLists, m \in AgentMetrics : CP_AnalyzeAgent(e, m)
  \/ CP_AnalyzeRaises
  \/ CP_Parse
  \/ CP_Generate
  \/ CP_GenerateRaises
  \/ CP_SkipDeploy
  \/ CP_EnterDeploy
  \/ DC_Config
  \/ FM_Enter
  \/ \E cli \in CliOutcomes, out \in Stdouts : FM_Run(cli, out)
  \/ \E ok \in BOOLEAN : DC_Finish(ok)
  \/ CP_Warehouse
  \/ CP_Dbt
  \/ CP_DbtRaises
  \/ CP_Store
  \/ UI_Render

SpecUI == Init /\ [][NextUI]_vars

\* ================================================================ claims
Last(s) == s[Len(s)]

InTrace(e) == \E i \in 1..Len(trace) : trace[i] = e

CliFailed == InTrace("cli_deploy_nonzero") \/ InTrace("cli_deploy_missing")

Returned(op) == outcome.op = op /\ outcome.kind = "returned"

Raised(op) == outcome.op = op /\ outcome.kind = "raised"

\* C1: when the CLI deployer fails inside create_pipeline (auto_deploy with a
\* group id and credentials, connector code already generated), the failure
\* does not leave the call: control goes on to the warehouse step with the
\* failure captured, the generated files are still on disk, an exception that
\* ends the call later is not the deployment's, and the result the call
\* returns has a non-empty fivetran.connector_dir, fivetran.deployed false and
\* a non-empty fivetran.deployment.error.
C1_DeployFailureCaptured ==
  (entry = "create_pipeline" /\ CliFailed) =>
    /\ DeployWanted(args)
    /\ pc # "idle" \/ outcome.op = "get_status" \/ Returned("create_pipeline")
         \/ (Raised("create_pipeline") /\ outcome.error = "dbt project write failed")
    /\ Last(trace) \in {"cli_deploy_nonzero", "cli_deploy_missing"} => pc = "warehouse"
    /\ GeneratedFiles(connector_info.connector_dir) \subseteq files
    /\ Returned("create_pipeline") =>
         /\ outcome.value.fivetran.connector_dir # <<>>
         /\ outcome.value.fivetran.connector_dir = ConnectorDir(analysis.source_name)
         /\ outcome.value.fivetran.deployed = FALSE
         /\ outcome.value.fivetran.deployment # None
         /\ outcome.value.fivetran.deployment.error # ""

C1_Witness ==
  /\ Returned("create_pipeline")
  /\ InTrace("cli_deploy_nonzero")
  /\ outcome.value.fivetran.deployment.error = "Connector deployment failed: stderr"

\* C2: a table creation that fails does not end create_pipeline (control goes
\* on to the dbt step) and the result's bigquery.tables lists, in order,
\* exactly the tables whose creation succeeded; with three entities and one
\* failure it lists the other two.
C2_TablesNonFatal ==
  /\ (entry = "create_pipeline" /\ Len(trace) > 0 /\ Last(trace) \in {"create_dataset", "create_table"})
       => pc = "dbt"
  /\ Returned("create_pipeline") =>
       LET ents == Take(outcome.value.analysis.entities, 3)
           tables == outcome.value.bigquery.tables
           name(i) == TableName(outcome.value.analysis.source_name, ents[i])
       IN /\ Len(table_ok) = Len(ents)
          /\ \A i \in 1..Len(ents) : table_ok[i] <=> (\E k \in 1..Len(tables) : tables[k] = name(i))
          /\ Len(tables) = Cardinality({i \in 1..Len(ents) : table_ok[i]})
          /\ \A k \in 1..Len(tables) : \E i \in 1..Len(ents) : table_ok[i] /\ tables[k] = name(i)

C2_Witness ==
  /\ Returned("create_pipeline")
  /\ Len(table_ok) = 3
  /\ Cardinality({i \in 1..3 : ~table_ok[i]}) = 1
  /\ Len(outcome.value.bigquery.tables) = 2

\* the step of create_pipeline a trace entry belongs to
StepOf(e) ==
  CASE e \in {"analyze", "analyze_failed"} -> 1
    [] e = "parse" -> 2
    [] e \in {"generate", "generate_failed"} -> 3
    [] e \in {"warn_no_group_id", "warn_no_credentials", "write_config", "cli_deploy_ok",
              "cli_deploy_nonzero", "cli_deploy_missing", "trigger_sync", "sync_failed"} -> 4
    [] e \in {"create_dataset", "create_table"} -> 5
    [] e \in {"dbt_init", "dbt_init_failed", "staging_model", "sources_yml", "mart_model",
              "schema_yml"} -> 6
    [] OTHER -> 7

Count(e) == Cardinality({i \in 1..Len(trace) : trace[i] = e})

\* C3: within one create_pipeline call the side effects happen in the order
\* analyze, parse, generate, deploy, warehouse, dbt, store, each step at most
\* once; a call that returns has run all of analyze, generate, warehouse, dbt;
\* and when connector generation fails the call ends there with the exception
\* and nothing of deploy, warehouse or dbt is done.
C3_FixedOrderFatalGeneration ==
  entry = "create_pipeline" =>
    /\ \A i, j \in 1..Len(trace) : i < j => StepOf(trace[i]) <= StepOf(trace[j])
    /\ \A e \in {"analyze", "parse", "generate", "create_dataset", "dbt_init", "store"} :
         Count(e) <= 1
    /\ InTrace("store") =>
         \A e \in {"analyze", "generate", "create_dataset", "dbt_init"} : Count(e) = 1
    /\ InTrace("generate_failed") =>
         /\ pc = "idle"
         /\ Last(trace) = "generate_failed"
         /\ outcome.op = "create_pipeline" => Raised("create_pipeline") /\ outcome.error = "generation failed"
         /\ connector_info = None /\ deployment_result = None
         /\ tables_created = <<>> /\ staging_models = <<>>

C3_Witness ==
  /\ Raised("create_pipeline")
  /\ outcome.error = "generation failed"
  /\ DeployWanted(args)

DeployEvents ==
  {"write_config", "cli_deploy_ok", "cli_deploy_nonzero", "cli_deploy_missing",
   "trigger_sync", "sync_failed"}

\* C4: in a create_pipeline call with auto_deploy true and no group id, or no
\* source credentials, nothing of the deployment happens (configuration.json
\* is not written, the CLI deployer is not run, no sync is triggered, no
\* deployment result is recorded), and the call goes on: a call that returns
\* has provisioned the warehouse and generated the dbt models and reports
\* fivetran.deployed false with no deployment entry; an exception that ends
\* the call is never a deployment error.
C4_DeploySkippedWithoutPrerequisites ==
  (entry = "create_pipeline" /\ args.auto_deploy
     /\ (~TruthyStr(args.fivetran_group_id) \/ ~Truthy(args.source_api_credentials))) =>
    /\ \A e \in DeployEvents : ~InTrace(e)
    /\ pc \notin {"dc_config", "fm_enter", "fm_run", "dc_sync"}
    /\ deployment_result = None /\ result = None
    /\ pc \in {"warehouse", "dbt", "store"} =>
         InTrace(IF ~TruthyStr(args.fivetran_group_id)
                   THEN "warn_no_group_id" ELSE "warn_no_credentials")
    /\ Returned("create_pipeline") =>
         /\ outcome.value.fivetran.deployed = FALSE
         /\ outcome.value.fivetran.deployment = None
         /\ InTrace("create_dataset") /\ InTrace("dbt_init") /\ InTrace("schema_yml")
    /\ Raised("create_pipeline") =>
         outcome.error \in {"analysis failed", "generation failed", "dbt project write failed"}

C4_Witness ==
  /\ Returned("create_pipeline")
  /\ args.auto_deploy
  /\ TruthyStr(args.fivetran_group_id)
  /\ ~Truthy(args.source_api_credentials)
  /\ InTrace("warn_no_credentials")

\* C5: in the deploy sequence, run from create_pipeline or on its own, the
\* initial sync is triggered only right after a CLI deploy that succeeded and
\* only when a connector id was recovered from its output; when the trigger
\* fails the failure stays inside: deploy_connector still hands back the
\* result with status 'deployed' and raises nothing.
C5_SyncBestEffort ==
  /\ \A i \in 1..Len(trace) :
       trace[i] = "trigger_sync" =>
         /\ i > 1 /\ trace[i - 1] = "cli_deploy_ok"
         /\ result # None /\ result.status = "deployed"
         /\ TruthyStr(result.connector_id)
         /\ result.connector_id = extract_connector_id(result.output)
  /\ InTrace("sync_failed") =>
       /\ entry = "create_pipeline" =>
            /\ deployment_result = result /\ deployment_result.status = "deployed"
            /\ Last(trace) = "sync_failed" => pc = "warehouse"
       /\ entry = "deploy_connector" =>
            /\ pc = "idle"
            /\ outcome.op = "deploy_connector" =>
                 Returned("deploy_connector") /\ outcome.value = result
                   /\ outcome.value.status = "deployed"

C5_Witness ==
  /\ InTrace("sync_failed")
  /\ Returned("deploy_connector")
  /\ outcome.value.status = "deployed"

\* C6: outside the CLI call, once FivetranManager.deploy_connector has changed
\* directory and has returned or raised, the process working directory is
\* what it was before that call.
C6_CwdRestored ==
  (original_dir # NoneStr /\ pc # "fm_run") => cwd = original_dir

\* C9: current_pipeline is None exactly while no create_pipeline call has
\* returned, and otherwise refers to the result of the latest call that
\* returned (a call that raised did not change it); get_status returns None
\* exactly in the first case and otherwise reports that result.
C9_StatusTracksLatestSuccess ==
  /\ current_pipeline = None <=> last_ok = 0
  /\ last_ok > 0 => current_pipeline = [ref |-> last_ok]
  /\ Returned("create_pipeline") => outcome.value.ref = last_ok
  /\ Returned("get_status") =>
       /\ outcome.value = None <=> last_ok = 0
       /\ last_ok > 0 => outcome.value = [pipeline_info |-> [ref |-> last_ok]]

C9_Witness ==
  /\ Returned("get_status")
  /\ calls = 2
  /\ last_ok = 1
  /\ entry = "create_pipeline"
  /\ Last(trace) = "dbt_init_failed"
  /\ outcome.value # None

Polls == Len(polled)

\* the seconds spent inside get_connector calls
RECURSIVE Busy(_)
Busy(n) == IF n = 0 THEN 0 ELSE polled[n].took + Busy(n - 1)

\* C7 as stated: a Timeout is raised only after at least
\* floor(timeout / poll_interval) polls.
C7_TimeoutAfterFloorPolls ==
  w_outcome = "timeout" => Polls >= w_args.timeout \div w_args.poll_interval

\* C7 amended: a Timeout is raised only once `timeout` seconds have passed
\* since the call began, none of the polls having seen a final state; the
\* polls made by then number at least one when timeout > 0, and together with
\* the sleeps they account for the whole wait (polls * poll_interval + the time
\* spent in the polls >= timeout), so that at least
\* floor(timeout / poll_interval) polls were made when the polls took no time.
C7_TimeoutAfterDeadline ==
  w_outcome = "timeout" =>
    /\ now - start_time >= w_args.timeout
    /\ now - start_time = Polls * w_args.poll_interval + Busy(Polls)
    /\ w_args.timeout > 0 => Polls >= 1
    /\ Busy(Polls) = 0 => Polls >= w_args.timeout \div w_args.poll_interval
    /\ \A i \in 1..Polls : polled[i].saw = "None"

C7_Witness ==
  /\ w_outcome = "timeout"
  /\ Polls >= 1
  /\ Polls < w_args.timeout \div w_args.poll_interval

\* C8: the wait returns at the first poll that sees 'connected', raises at the
\* first poll that sees 'broken' or 'incomplete' (no poll follows either), and
\* raises Timeout only when the deadline has passed with neither seen; every
\* poll starts before the deadline, a poll starts poll_interval seconds after
\* the previous one ended, and the loop raises Timeout, without another poll,
\* as soon as it finds the deadline passed.
WaitProtocolState ==
  /\ \A i \in 1..Polls :
       /\ polled[i].saw \in {"connected", "broken", "incomplete", "error"} =>
            i = Polls /\ w_pc = "done"
       /\ polled[i].at - start_time < w_args.timeout
       /\ i > 1 => polled[i].at = polled[i - 1].at + polled[i - 1].took + w_args.poll_interval
  /\ w_outcome = "returned" <=> (Polls > 0 /\ polled[Polls].saw = "connected")
  /\ w_outcome = "failed" <=> (Polls > 0 /\ polled[Polls].saw \in {"broken", "incomplete"})
  /\ w_outcome = "timeout" =>
       /\ now - start_time >= w_args.timeout
       /\ \A i \in 1..Polls : polled[i].saw = "None"

\* the step taken at the top of the loop once the deadline has passed
WaitProtocolStep ==
  (w_pc = "loop" /\ now - start_time >= w_args.timeout) =>
    (w_outcome' = "timeout" /\ polled' = polled)

C8_WaitProtocol == []WaitProtocolState /\ [][WaitProtocolStep]_vars

C8_Witness ==
  /\ w_outcome = "failed"
  /\ Polls = 3
  /\ polled[3].saw = "incomplete"
  /\ polled[3].at = polled[2].at + polled[2].took + w_args.poll_interval

\* the run has created its project directory
Scaffolded(r) == \E i \in 1..Len(a_run[r].effects) : a_run[r].effects[i] = "scaffold"

\* C10: once two generation runs have been made one after the other, each
\* having scaffolded its project, exactly one subdirectory exists under
\* src/connectors/.
C10_SingleActiveProject ==
  \A r \in 1..(MaxRuns - 1) :
    (/\ a_run[r].pc = "done" /\ Scaffolded(r)
     /\ a_run[r + 1].pc = "done" /\ Scaffolded(r + 1) /\ ~a_run[r + 1].overlap
     /\ r + 2 <= MaxRuns => a_run[r + 2].pc = "new")
      => Cardinality(a_dirs) = 1

\* the directory the run scaffolds
ProjectDir(r) == SafeProjectName(a_run[r].form.project_name)

\* the run did `e`
Did(r, e) == \E i \in 1..Len(a_run[r].effects) : a_run[r].effects[i] = e

\* the run has scaffolded its project and has not yet deployed or zipped it
InFlight(r) == a_run[r].pc = "deploy"

\* the step is the cleanup step of run q
CleanupStep(q) == a_run[q].pc = "cleanup" /\ a_run'[q].pc = "agent"

\* C11: src/connectors/ is shared and unguarded. The cleanup step of a web
\* submission removes every project directory, those of submissions that have
\* scaffolded and not yet deployed or zipped included, and this is the only
\* way such a directory disappears; so with two overlapping submissions the
\* second can delete the first one's project between its scaffold and its
\* deploy (the witness).
C11_CleanupRace ==
  [][/\ \A q \in 1..MaxRuns : CleanupStep(q) => a_dirs' = {}
     /\ \A r \in 1..MaxRuns :
          (InFlight(r) /\ ProjectDir(r) \in a_dirs /\ ProjectDir(r) \notin a_dirs')
            => \E q \in 1..MaxRuns \ {r} :
                 /\ CleanupStep(q)
                 /\ a_run[q].door = "web"
                 /\ a_run'[r] = a_run[r]]_vars

C11_Witness ==
  /\ InFlight(1) /\ a_run[1].door = "web"
  /\ ProjectDir(1) \notin a_dirs
  /\ a_run[2].door = "web" /\ a_run[2].overlap
  /\ a_run[2].pc = "agent" /\ Did(2, "delete_all")

\* a web submission that must be turned away: a required field is empty, the
\* server has no ACCESS_PASSWORD, or the password given is not the server's
Denied(r) ==
  /\ a_run[r].door = "web"
  /\ \/ ~TruthyStr(a_run[r].form.access_password)
     \/ ~TruthyStr(a_run[r].form.project_name)
     \/ ~TruthyStr(a_run[r].correct_password)
     \/ a_run[r].form.access_password # a_run[r].correct_password

AccessErrors == {"error_required", "error_password_unset", "error_invalid_password"}

DeniedState ==
  \A r \in 1..MaxRuns :
    Denied(r) => /\ a_run[r].pc = "done"
                 /\ a_run[r].out \in AccessErrors
                 /\ a_run[r].effects = <<>>

DeniedStep ==
  \A r \in 1..MaxRuns :
    (a_run[r].pc = "new" /\ Denied(r)') => a_dirs' = a_dirs

\* C12: a web submission with a required field missing, with ACCESS_PASSWORD
\* unset on the server, or with a password that differs from it ends at once
\* with an inline error: it deletes no connector directory, creates no agent
\* session, scaffolds no project and invokes no deploy.
C12_NoWorkBeforeChecks == []DeniedState /\ [][DeniedStep]_vars

C12_Witness ==
  /\ a_run[2].form.access_password = S_bad_password
  /\ a_run[2].correct_password = S_password
  /\ a_run[2].out = "error_invalid_password"
  /\ a_run[1].out = "result_deployed_zip"
  /\ a_dirs = {ProjectDir(1)}

\* the last items a web run can end with that are a result with its zip, and
\* those that are an error message
ResultItems == {"result_deployed_zip", "result_deploy_failed_zip"}

ErrorItems ==
  {"error_required", "error_password_unset", "error_invalid_password",
   "error_fivetran_key", "error_firecrawl_key", "error_code", "error_session",
   "error_json", "error_exception"}

\* C13: the last item of a finished web run's progress stream is a result
\* with its project zip or an explicit error message.
C13_StreamEndsWithResultOrError ==
  \A r \in 1..MaxRuns :
    (a_run[r].door = "web" /\ a_run[r].pc = "done")
      => a_run[r].out \in ResultItems \cup ErrorItems

\* C14: once an event of the agent run has carried an error_code, the run is
\* over, web UI and CLI alike: the code is surfaced and no schema parsing,
\* template rendering, scaffolding or deployment follows, nor a second agent
\* run.
C14_ErrorCodeAborts ==
  \A r \in 1..MaxRuns :
    Did(r, "error_event") =>
      /\ a_run[r].pc = "done"
      /\ Last(a_run[r].effects) = "error_event"
      /\ Cardinality({i \in 1..Len(a_run[r].effects) : a_run[r].effects[i] = "run_agent"}) = 1

\* C15 as stated: for a text of exactly two fenced blocks whose payloads A and
\* B are valid JSON, the parsing stage yields A as extraction schema and B as
\* warehouse schema and goes on with them; for a text with no or one fenced
\* block, or with a payload that is not JSON, it reports an error and uses
\* neither schema.
C15_ParsesTwoBlocks ==
  fn_op = "ParseSchemas" =>
    /\ \A ta, tb \in BOOLEAN, A, B \in Payloads, intro \in {<<>>, S_intro} :
         fn_in = intro \o Fenced(ta, A, TRUE) \o Fenced(tb, B, TRUE) =>
           IF IsJson(A) /\ IsJson(B)
             THEN /\ SchemasUsable(fn_out)
                  /\ fn_out.firecrawl_schema = JsonLoads(A)
                  /\ fn_out.fivetran_schema = JsonLoads(B)
             ELSE ~SchemasUsable(fn_out)
    /\ \A ta \in BOOLEAN, A \in Payloads, intro \in {<<>>, S_intro} :
         fn_in \in {intro, intro \o Fenced(ta, A, TRUE)} => ~SchemasUsable(fn_out)

\* the characters of [A-Za-z0-9_-] (of the letters, those of this model)
SafeChars == AsciiAlnum \cup {"_", "-"}

\* C16: the sanitized directory name of any project name has only characters
\* of [A-Za-z0-9_-] and the length of the name, and sanitizing it again
\* returns it unchanged.
C16_SanitizedName ==
  /\ fn_op = "SafeProjectName" =>
       /\ Range(fn_out) \subseteq SafeChars
       /\ Len(fn_out) = Len(fn_in)
  /\ fn_op = "SafeProjectName again" => fn_out = fn_in

\* C17: deploy_to_fivetran runs the deployer subprocess once, with a limit of
\* 300 seconds, and never raises: exit 0 gives (True, stdout); another exit
\* status gives False with stderr and stdout; the timeout gives False with
\* 'Deployment timed out after 5 minutes'; a missing binary gives False with
\* the fixed installation message; any other exception gives False with its
\* string form.
C17_DeployClassified ==
  fn_op = "deploy_to_fivetran" =>
    LET proc == fn_in[1]
    IN /\ fn_out.invoked = 1
       /\ ~fn_out.raised
       /\ fn_out.limit = 300 /\ fn_out.limit = 5 * 60
       /\ fn_out.success <=> proc = "exit0"
       /\ proc = "exit0" => fn_out.message = <<"stdout">>
       /\ proc = "nonzero" =>
            /\ Len(fn_out.message) = 4
            /\ fn_out.message[2] = "stderr" /\ fn_out.message[4] = "stdout"
       /\ proc = "timeout" => fn_out.message = <<"Deployment timed out after 5 minutes">>
       /\ proc = "not_found" => fn_out.message = <<M_not_found>>
       /\ proc = "other_exception" => fn_out.message[Len(fn_out.message)] = "str(e)"

C17_Witness ==
  /\ fn_op = "deploy_to_fivetran"
  /\ fn_in = <<"timeout">>
  /\ ~fn_out.success
  /\ fn_out.message = <<M_timed_out>>

\* the step makes the API call `c`
Calls(c) == c \in Range(d_calls') /\ c \notin Range(d_calls)

\* what the platform holds under the configured names
NamedGroups == SelectSeq(platform.groups, LAMBDA g : g.name = S_group_name)

BigQueryDestinations(group_id) ==
  SelectSeq(platform.destinations,
            LAMBDA x : x.group_id = group_id /\ x.service = S_big_query)

NamedConnectors(group_id) ==
  SelectSeq(platform.connectors,
            LAMBDA c : c.group_id = group_id /\ c.schema = S_connector_name)

\* created by one of the deploy runs
ByRun(x) == x.id[2] > 0

FindOrCreateStep ==
  /\ Calls("create_group") => NamedGroups = <<>>
  /\ Calls("create_destination") => BigQueryDestinations(resources.group_id) = <<>>
  /\ Calls("create_connector") => NamedConnectors(resources.group_id) = <<>>

FindOrCreateState ==
  /\ Len(SelectSeq(platform.groups, ByRun)) <= 1
  /\ Len(SelectSeq(platform.destinations, ByRun)) <= 1
  /\ Len(SelectSeq(platform.connectors, ByRun)) <= 1
  /\ \A i, j \in 1..Len(d_saved) :
       /\ d_saved[i].group_id = d_saved[j].group_id
       /\ d_saved[i].connector_id = d_saved[j].connector_id

\* C18: sequential deploy runs with one config find or create: a run issues
\* the create call for the group, the big_query destination or the connector
\* only when it found none under the configured name, so the runs together
\* create at most one of each, and every run that records its resources
\* records the same group id and connector id.
C18_FindOrCreate == []FindOrCreateState /\ [][FindOrCreateStep]_vars

C18_Witness ==
  /\ Len(d_saved) = 2
  /\ d_saved[1].group_id = Id("group", 1)
  /\ d_saved[2].connector_id = Id("connector", 1)
  /\ d_run = 2 /\ d_pc = "idle"
  /\ d_calls = <<"list_groups", "list_destinations", "list_connectors">>

FatalFailures == {"missing_config", "missing_credentials", "api_group", "api_connector"}

\* a deploy run has ended
DeployEnded == b_cmd = "deploy" /\ d_pc = "idle"

DeployEndState ==
  /\ DeployEnded =>
       IF b_fail \cap FatalFailures # {} THEN b_exit = 1
       ELSE IF ~d_opts.confirmed THEN b_exit = 0 /\ d_calls = <<>>
       ELSE /\ b_exit = 0
            /\ b_disk[Join(Parent(d_opts.config), F_info)] =
                 DeploymentInfo(resources, d_opts.deploy_config)
            /\ Last(d_saved) = resources
            /\ resources.group_id # NoId /\ resources.connector_id # NoId
            /\ resources.destination_id = NoId <=> "api_destination" \in b_fail
            /\ "test_connector" \in Range(d_calls) <=> ~d_opts.skip_tests
            /\ "sync_connector" \in Range(d_calls) <=> ~d_opts.no_sync
  /\ d_opts.skip_tests => "test_connector" \notin Range(d_calls)
  /\ d_opts.no_sync => "sync_connector" \notin Range(d_calls)

DeployFailureStep ==
  /\ (b_cmd' = "deploy" /\ b_exit' = 1) => (b_disk' = b_disk /\ d_saved' = d_saved)
  /\ ("api_destination" \in b_fail' \ b_fail) => d_pc' = "connector"
  /\ ("test" \in b_fail' \ b_fail) => d_pc' = "sync"
  /\ ("api_sync" \in b_fail' \ b_fail) => d_pc' = "save"

\* C19: a deploy run that cannot find or create the group or the connector
\* exits with status 1 and writes no DeploymentInfo file; a failure of the
\* destination step, of the connector test or of the sync trigger lets the run
\* go on to the next step, and the run ends with status 0 and the file written
\* with the ids it obtained. --skip-tests makes no test call, --no-sync no
\* sync call.
C19_DeployFailures == []DeployEndState /\ [][DeployFailureStep]_vars

C19_Witness ==
  /\ DeployEnded /\ b_exit = 0
  /\ b_fail = {"api_destination", "test", "api_sync"}
  /\ b_disk[DefaultInfo] = DeploymentInfo(resources, d_opts.deploy_config)
  /\ resources.destination_id = NoId
  /\ resources.connector_id = Id("connector", d_run)

\* C20: a sub-command of the Pipeline-B command line that has ended has exit
\* status 0 when it met no failure and 1 when it met one (a missing config or
\* spec file, missing credentials, a failed API call).
C20_ExitStatus ==
  (b_cmd # "none" /\ d_pc = "idle") =>
    /\ b_fail = {} => b_exit = 0
    /\ b_fail \cap {"missing_config", "missing_spec", "missing_credentials",
                    "api_group", "api_connector", "api_list_connectors",
                    "api_status"} # {} => b_exit = 1

\* generate has just ended well with its default --output and deploy starts
\* with its default --config
DeployAfterGenerate ==
  /\ b_cmd = "generate" /\ b_exit = 0 /\ g_opts.output = DefaultOutput
  /\ b_cmd' = "deploy" /\ d_opts'.config = DefaultConfig

\* deploy has just ended well with its default --config and status check
\* starts with its default --config, no --connector-id, and credentials
CheckAfterDeploy ==
  /\ DeployEnded /\ b_exit = 0 /\ d_opts.confirmed /\ d_opts.config = DefaultConfig
  /\ b_cmd' = "status check" /\ "missing_credentials" \notin b_fail'
  /\ s_check'.config = DefaultInfo /\ s_check'.given = NoId

HandOverStep ==
  /\ DeployAfterGenerate =>
       d_opts'.deploy_config = DeploymentConfig(PipelineName(g_opts.description))
  /\ CheckAfterDeploy => s_check'.connector_id = resources.connector_id

\* C21: with the path options left at their defaults in one working
\* directory, a deploy that follows a generate reads the DeploymentConfig
\* that generate wrote, and a status check that follows a deploy takes the
\* connector id from the DeploymentInfo that deploy wrote.
C21_YamlHandOver == [][HandOverStep]_vars

\* C22: generate rejects a description whose pipeline name is empty: the run
\* exits with status 1, and no DeploymentConfig of a pipeline without a name
\* is ever written.
C22_EmptyNameRejected ==
  /\ (b_cmd = "generate" /\ PipelineName(g_opts.description) = <<>>) => b_exit = 1
  /\ \A dir \in OutputDirs :
       b_disk[Join(dir, F_config)] # None => b_disk[Join(dir, F_config)].name # <<>>

\* the handler of the tab has returned after a create_pipeline that returned
Rendered ==
  /\ ui.pc = "done" /\ ui.out.kind # "missing_fields"
  /\ Returned("create_pipeline")

\* C23: for a result that create_pipeline returned, the tab shows the
\* summary with the deployed status and the connector id when
\* fivetran.deployed holds, with the failed status and the error when a
\* deployment was attempted and failed, and with the not-attempted status
\* otherwise; it never shows an error.
C23_RendersDeploymentStatus ==
  Rendered =>
    LET fivetran == outcome.value.fivetran
    IN IF fivetran.deployed
         THEN ui.out = [kind |-> "deployed", connector_id |-> fivetran.connector_id]
       ELSE IF fivetran.deployment # None
         THEN ui.out = [kind |-> "failed", error |-> fivetran.deployment.error]
       ELSE ui.out = [kind |-> "not_attempted"]


\* the operations a pass over `data` issues when nothing fails
UpsertsThen(s) ==
  [k \in 1..Len(s.data) |->
     [op |-> "upsert", table |-> s.schema[1].table, data |-> s.data[k]]]

Checkpoints(ops) == {k \in 1..Len(ops) : ops[k].op = "checkpoint"}

\* C24: a pass of update() that returns has issued one upsert per record, in
\* order, into the table of the first entry of the embedded schema, and then
\* exactly one checkpoint with the state it was given; a pass without data has
\* issued the checkpoint only; a pass that raises has issued no checkpoint.
C24_OneCheckpointAfterUpserts ==
  /\ sync.pc = "done" /\ sync.out.kind = "returned"
       => sync.ops = Append(UpsertsThen(sync), [op |-> "checkpoint", state |-> sync.state])
  /\ sync.pc = "done" /\ sync.out.kind = "raised" => Checkpoints(sync.ops) = {}
  /\ sync.pc # "done" => Checkpoints(sync.ops) = {}

\* a pass over MaxRecords records has returned
C24_Witness ==
  /\ sync.pc = "done" /\ sync.out.kind = "returned"
  /\ Len(sync.data) = MaxRecords
  /\ Len(sync.ops) = MaxRecords + 1

\* a pass without data has returned
C24_WitnessEmpty ==
  /\ sync.pc = "done" /\ sync.out.kind = "returned"
  /\ sync.data = <<>>
  /\ Len(sync.ops) = 1

\* C25: what leaves update() depends on the class of the failure: a missing
\* key or url leaves as a RuntimeError whose message starts with
\* "Configuration error: ", and nothing else gets that prefix; a failure to
\* construct the client leaves unchanged; any other exception leaves as a
\* RuntimeError that embeds the original message and the trace.
C25_EscalatesByClass ==
  sync.pc = "done" /\ sync.out.kind = "raised" =>
    /\ sync.out.cause = "configuration"
         <=> (sync.out.error.type = "RuntimeError"
                /\ sync.out.error.message[1] = "Configuration error: ")
    /\ sync.out.cause = "init" => sync.out.error = sync.out.original
    /\ sync.out.cause \notin {"configuration", "init"} =>
         sync.out.error =
           Exc("RuntimeError",
               <<"Error: ", sync.out.original.message, "\nStack Trace:\n", "traceback">>)

\* the record list the three response shapes stand for
ClaimedRecords(data) ==
  IF data.shape = "RequestException" THEN 0
  ELSE IF data.shape = "list" \/ (data.shape = "dict" /\ data.key # "none") THEN data.n
  ELSE 1

SingleObject(data) == data.shape = "other" \/ (data.shape = "dict" /\ data.key = "none")

ClaimedMore(data) ==
  /\ ClaimedRecords(data) > 0
  /\ \/ ClaimedRecords(data) = PerPage
     \/ data.shape = "dict" /\ (data.has_more \/ data.next)

\* C29: get_endpoint_data asks for pages 1, 2, 3, ... with 100 records per
\* page; the records it has gathered are the record lists of the responses, in
\* page order, a page with an empty record list adding nothing; it goes on
\* only after a page with records that reports more, and it is over at the
\* first page that is empty, reports no more, or fails.
C29_Pagination ==
  /\ \A k \in 1..Len(fetch.requests) :
       fetch.requests[k] = [page |-> k, per_page |-> PerPage]
  /\ \A k \in 1..Len(fetch.responses) - 1 : ClaimedMore(fetch.responses[k])
  /\ fetch.pc = "done" => ~ClaimedMore(fetch.responses[Len(fetch.responses)])
  /\ Len(fetch.all_records) =
       Cardinality({k \in 1..Len(fetch.responses) : ClaimedRecords(fetch.responses[k]) > 0})
  /\ \A k \in 1..Len(fetch.all_records) :
       fetch.all_records[k] =
         Records(k, ClaimedRecords(fetch.responses[k]), SingleObject(fetch.responses[k]))


Keyword(entity) ==
  IF entity = S_orders THEN S_order
  ELSE IF entity = S_customers THEN S_customer
  ELSE S_product

Hit(entity) == Contains(Lower(args.requirements), Keyword(entity))

\* C26: without an analysis agent, the entities of a create_pipeline analysis
\* are those of orders, customers, products (in this order) whose keyword
\* occurs in the requirements text, whatever its case; "order" and "customer"
\* without "product" give [orders, customers]; none of the three gives [data].
C26_FallbackKeywords ==
  entry = "create_pipeline" /\ ~agent /\ analysis # None =>
    /\ \/ analysis.entities = SelectSeq(<<S_orders, S_customers, S_products>>, Hit)
       \/ analysis.entities = <<S_data>>
            /\ ~Hit(S_orders) /\ ~Hit(S_customers) /\ ~Hit(S_products)
    /\ Hit(S_orders) /\ Hit(S_customers) /\ ~Hit(S_products)
         => analysis.entities = <<S_orders, S_customers>>
    /\ ~Hit(S_orders) /\ ~Hit(S_customers) /\ ~Hit(S_products)
         => analysis.entities = <<S_data>>

\* the fallback has analysed a text that names the customer before the order
C26_Witness ==
  /\ entry = "create_pipeline" /\ ~agent /\ analysis # None
  /\ Hit(S_orders) /\ Hit(S_customers) /\ ~Hit(S_products)
  /\ analysis.entities = <<S_orders, S_customers>>

\* C27: in every result create_pipeline returns, the staging models and the
\* warehouse tables correspond one to one: the i-th staging model and the i-th
\* table are those of the same entity.
C27_StagingPerTable ==
  outcome.op = "create_pipeline" /\ outcome.kind = "returned" =>
    LET info == outcome.value
        source_name == Replace(Lower(info.analysis.source_name), " ", "_")
    IN /\ Len(info.dbt.staging_models) = Len(info.bigquery.tables)
       /\ \A i \in 1..Len(info.dbt.staging_models) :
            \E k \in 1..Len(info.analysis.entities) :
              /\ info.dbt.staging_models[i] =
                   StagingModelName(source_name, info.analysis.entities[k])
              /\ info.bigquery.tables[i] =
                   TableName(info.analysis.source_name, info.analysis.entities[k])

\* C28: the model a mart file of a create_pipeline call selects from is a
\* staging model the same call created.
C28_MartRefersToStaging ==
  \A i \in 1..Len(mart_refs) :
    \E k \in 1..Len(staging_models) : staging_models[k] = mart_refs[i]

\* C30: no two endpoint configurations of one create_pipeline call have the
\* same table name.
C30_DistinctTableNames ==
  \A i, k \in 1..Len(endpoint_configs) :
    i # k => endpoint_configs[i].table_name # endpoint_configs[k].table_name

====
